---------------------------- MODULE Spec2Model ----------------------------
(***************************************************************************)
(* A model of the High-Performance Trade Simulator: the order book store   *)
(* (src/src/data/orderbook.py), the cost models (src/src/models/*.py), the *)
(* controller (src/src/models/simulator.py) and the feed connector         *)
(* (src/src/data/websocket_manager.py).                                    *)
(*                                                                         *)
(* Python floats are modelled as exact rationals <<n, d>> in lowest terms  *)
(* with d > 0, so that equalities such as "imbalance = 0.5" are decided,   *)
(* not assumed.  A Python result is a record [tag, val]: tag "ok" carries  *)
(* a rational, tag "none" is None, tag "raise" is a raised exception.      *)
(***************************************************************************)
EXTENDS Integers, Sequences, FiniteSets, TLC

(***************************************************************************)
(* Rational arithmetic (Python float arithmetic, without rounding).        *)
(***************************************************************************)
Abs(x) == IF x < 0 THEN -x ELSE x

RECURSIVE GCD(_, _)
GCD(a, b) == IF b = 0 THEN a ELSE GCD(b, a % b)

Norm(n, d) ==
    LET s == IF d < 0 THEN -1 ELSE 1
        g == GCD(Abs(n), Abs(d))
    IN  <<(s * n) \div g, (s * d) \div g>>

Rat(n) == <<n, 1>>
Zero == <<0, 1>>
Half == <<1, 2>>
One == <<1, 1>>

RAdd(a, b) ==
    LET g == GCD(a[2], b[2])
    IN  Norm(a[1] * (b[2] \div g) + b[1] * (a[2] \div g), (a[2] \div g) * b[2])
RNeg(a) == <<-a[1], a[2]>>
RSub(a, b) == RAdd(a, RNeg(b))
RMul(a, b) ==
    LET g1 == GCD(Abs(a[1]), b[2])
        g2 == GCD(Abs(b[1]), a[2])
        h1 == IF g1 = 0 THEN 1 ELSE g1
        h2 == IF g2 = 0 THEN 1 ELSE g2
    IN  Norm((a[1] \div h1) * (b[1] \div h2), (a[2] \div h2) * (b[2] \div h1))
\* a / b for b # 0 (the callers test b = 0 first, as Python raises there)
RDiv(a, b) == RMul(a, Norm(b[2], b[1]))
RLess(a, b) == a[1] * b[2] < b[1] * a[2]
RLeq(a, b) == a[1] * b[2] <= b[1] * a[2]
RMin(a, b) == IF RLess(b, a) THEN b ELSE a
RMax(a, b) == IF RLess(a, b) THEN b ELSE a

Ok(r) == [tag |-> "ok", val |-> r]
None == [tag |-> "none", val |-> Zero]
Raise == [tag |-> "raise", val |-> Zero]

(***************************************************************************)
(* Wire values.  Prices and sizes arrive as strings and are parsed with    *)
(* float(); a string that is no number makes float() raise ValueError.     *)
(***************************************************************************)
\* float(s) of the tokens of the model
FloatOf(s) ==
    CASE s = "0" -> Ok(Zero)
      [] s = "2" -> Ok(Rat(2))
      [] s = "3" -> Ok(Rat(3))
      [] s = "9.5" -> Ok(<<19, 2>>)
      [] s = "10" -> Ok(Rat(10))
      [] s = "10.0" -> Ok(Rat(10))
      [] s = "4" -> Ok(Rat(4))
      [] s = "5" -> Ok(Rat(5))
      [] s = "99" -> Ok(Rat(99))
      [] s = "100" -> Ok(Rat(100))
      [] s = "101" -> Ok(Rat(101))
      [] s = "102" -> Ok(Rat(102))
      [] OTHER -> Raise

\* the levels a feed message may carry, [price, size]: two prices, two
\* spellings of one price, an empty level, and a price that is no number
Levels == {<<"9.5", "2">>, <<"10", "0">>, <<"10.0", "2">>, <<"x", "2">>}


(***************************************************************************)
(* The program state.                                                      *)
(***************************************************************************)
VARIABLES
    bids,             \* OrderBook.bids: sequence of [price, size] string pairs
    asks,             \* OrderBook.asks
    latency_history,  \* TradeSimulator.latency_history
    latency_pushed,   \* history: every sample given to update_latency, in order
    maker_taker_model,\* MakerTakerModel: [is_trained, n, labels, fitted, fit_at]: n is
                      \* len(training_data_y), labels the labels it holds,
                      \* fitted the n of the last successful fit (0: none),
                      \* fit_at the n of the last _train_model call
    mt_call,          \* history: the last MakerTakerModel.predict call:
                      \* [order_type, trained, value, consulted, calls]
    running,          \* WebSocketManager.running
    thread,           \* WebSocketManager.thread: a thread, or 0 for None
    websocket,        \* WebSocketManager.websocket: the thread whose
                      \* connection it is, or 0 for None
    th_pc,            \* where each thread ever started stands in
                      \* _run_websocket_loop / _websocket_handler
    ui_pc,            \* where the UI thread stands in disconnect()
    stop_requested,   \* history: the threads that were the running loop when
                      \* a disconnect() signalled stop
    late,             \* history: per thread, the messages it took from
                      \* recv() while running was false, since the last
                      \* connect() (counted up to 2)
    ui_call,          \* history: the last connect() or disconnect() call:
                      \* [op, connected, fresh, again]
    dropped,          \* history: the threads whose connection was closed by
                      \* the remote side, or never made, since the last
                      \* connect() call
    message_count,    \* WebSocketManager.message_count
    undecodable,      \* history: [count, at]: the messages json.loads
                      \* failed on, and message_count when the last came
    simulator,        \* TradeSimulator's parameters, counter and results:
                      \* [exchange, order_type, quantity, volatility, fee_tier,
                      \*  message_count, slippage, fees, market_impact,
                      \*  net_cost, maker_proportion]
    slippage_model,   \* SlippageModel: [is_trained, n, fitted, fit_at]
    fee_model,        \* FeeModel: [maker_rate, taker_rate]
    market_impact_model, \* MarketImpactModel: [sigma, gamma, eta]
    feed,             \* the feed thread inside _process_message: [pc, data,
                      \* slippage_cost] are its position and locals;
                      \* quantities, volatilities and order_types are
                      \* history: the values of self.quantity,
                      \* self.volatility and self.order_type the current
                      \* pipeline run has read, ran the steps of
                      \* _run_models it has executed and failed the models
                      \* whose except clause answered in it
    gui,              \* the UI thread inside set_parameters or
                      \* update_display: [pc, args, seen, settings] are its
                      \* position, the arguments of set_parameters, what the
                      \* display pass has read so far, and the number of
                      \* set_parameters calls made
    committed         \* history: every complete published state, each the
                      \* book and results as one update left them

bookVars == <<bids, asks>>
latVars == <<latency_history, latency_pushed>>
mtVars == <<maker_taker_model, mt_call>>
connVars == <<running, thread, websocket, th_pc, ui_pc, stop_requested, late,
              ui_call, dropped>>
feedVars == <<message_count, undecodable>>
simVars == <<simulator, slippage_model, fee_model, market_impact_model, feed, gui,
             committed, feedVars>>
vars == <<bids, asks, latency_history, latency_pushed, maker_taker_model, mt_call,
          running, thread, websocket, th_pc, ui_pc, stop_requested, late, ui_call,
          dropped, message_count, undecodable,
          simulator, slippage_model, fee_model, market_impact_model, feed, gui,
          committed>>

(***************************************************************************)
(* OrderBook (src/src/data/orderbook.py)                                   *)
(***************************************************************************)
\* key=lambda x: float(x[0])
PriceKey(level) == FloatOf(level[1])

AllPricesParse(side) == \A i \in 1..Len(side) : PriceKey(side[i]).tag = "ok"

\* x sorts strictly before y: by ascending key, or descending with reverse
SortsBefore(x, y, reverse) ==
    IF reverse THEN RLess(PriceKey(y).val, PriceKey(x).val)
               ELSE RLess(PriceKey(x).val, PriceKey(y).val)

\* x put into the sorted s behind every level that does not sort after it
RECURSIVE InsertLevel(_, _, _)
InsertLevel(s, x, reverse) ==
    IF s = <<>> THEN <<x>>
    ELSE IF SortsBefore(x, s[Len(s)], reverse)
         THEN Append(InsertLevel(SubSeq(s, 1, Len(s) - 1), x, reverse), s[Len(s)])
         ELSE Append(s, x)

\* sorted(side, key=lambda x: float(x[0]), reverse=reverse): a stable sort,
\* defined when every price parses
RECURSIVE SortedByPrice(_, _)
SortedByPrice(side, reverse) ==
    IF side = <<>> THEN <<>>
    ELSE InsertLevel(SortedByPrice(SubSeq(side, 1, Len(side) - 1), reverse),
                     side[Len(side)], reverse)

\* the sides as OrderBook.update leaves them for message m
\* (m.hasBids: "bids" in data; m.hasAsks: "asks" in data).  The sides are
\* assigned first and sorted afterwards, bids before asks; a price that does
\* not parse raises inside sorted() and the except clause keeps what was
\* assigned so far.
UpdatedBook(b, a, m) ==
    LET b1 == IF m.hasBids THEN m.bids ELSE b
        a1 == IF m.hasAsks THEN m.asks ELSE a
    IN  IF ~AllPricesParse(b1) THEN [bids |-> b1, asks |-> a1, ok |-> FALSE]
        ELSE IF ~AllPricesParse(a1)
             THEN [bids |-> SortedByPrice(b1, TRUE), asks |-> a1, ok |-> FALSE]
             ELSE [bids |-> SortedByPrice(b1, TRUE),
                   asks |-> SortedByPrice(a1, FALSE), ok |-> TRUE]

\* OrderBook.update(data)
OrderBookUpdate(m) ==
    LET r == UpdatedBook(bids, asks, m)
    IN  /\ bids' = r.bids
        /\ asks' = r.asks

\* a mid price that tests "not bids and not asks" and so indexes an empty side
MidPriceWhenBothEmpty(b, a) ==
    IF b = <<>> /\ a = <<>> THEN None
    ELSE IF b = <<>> \/ a = <<>> THEN Raise
    ELSE Ok(RDiv(RAdd(FloatOf(b[1][1]).val, FloatOf(a[1][1]).val), Rat(2)))

\* OrderBook.get_mid_price()
get_mid_price(b, a) ==
    IF b = <<>> \/ a = <<>> THEN None
    ELSE LET best_bid == FloatOf(b[1][1])
             best_ask == FloatOf(a[1][1])
         IN  IF best_bid.tag # "ok" \/ best_ask.tag # "ok" THEN Raise
             ELSE Ok(RDiv(RAdd(best_bid.val, best_ask.val), Rat(2)))

\* OrderBook.get_spread()
get_spread(b, a) ==
    IF b = <<>> \/ a = <<>> THEN None
    ELSE LET best_bid == FloatOf(b[1][1])
             best_ask == FloatOf(a[1][1])
         IN  IF best_bid.tag # "ok" \/ best_ask.tag # "ok" THEN Raise
             ELSE Ok(RSub(best_ask.val, best_bid.val))

\* the sum of float(size) over the first n levels of a side
RECURSIVE SideDepth(_, _)
SideDepth(side, n) ==
    IF n = 0 \/ side = <<>> THEN Zero
    ELSE RAdd(FloatOf(side[1][2]).val, SideDepth(Tail(side), n - 1))

\* a depth that sums every level, whatever price_levels is
DepthOfAllLevels(b, a, price_levels) ==
    [bids |-> SideDepth(b, Len(b)), asks |-> SideDepth(a, Len(a))]

\* OrderBook.get_depth(price_levels)
get_depth(b, a, price_levels) ==
    [bids |-> SideDepth(b, price_levels), asks |-> SideDepth(a, price_levels)]

\* get_orderbook_imbalance passes price_levels=5
ImbalanceLevels == 5

\* OrderBook.get_orderbook_imbalance()
get_orderbook_imbalance(b, a) ==
    LET depth == get_depth(b, a, ImbalanceLevels)
        total_volume == RAdd(depth.bids, depth.asks)
    IN  IF total_volume = Zero THEN Half
        ELSE RDiv(depth.bids, total_volume)

\* OrderBook.get_spread_percentage()
get_spread_percentage(b, a) ==
    LET mid_price == get_mid_price(b, a)
        spread == get_spread(b, a)
    IN  IF mid_price.tag = "raise" \/ spread.tag = "raise" THEN Raise
        ELSE IF mid_price.tag = "none" \/ spread.tag = "none" THEN None
        ELSE IF mid_price.val = Zero THEN Raise
        ELSE Ok(RMul(RDiv(spread.val, mid_price.val), Rat(100)))

\* a walk that takes every level whole (executed_qty = size_float)
RECURSIVE VwapWalkWholeLevels(_, _, _, _)
VwapWalkWholeLevels(side, i, remaining_qty, total_cost) ==
    IF i > Len(side)
    THEN [tag |-> "ok", remaining_qty |-> remaining_qty, total_cost |-> total_cost]
    ELSE LET price_float == FloatOf(side[i][1])
             size_float == FloatOf(side[i][2])
         IN  IF price_float.tag # "ok" \/ size_float.tag # "ok"
             THEN [tag |-> "raise", remaining_qty |-> remaining_qty,
                   total_cost |-> total_cost]
             ELSE IF RLeq(remaining_qty, Zero)
             THEN [tag |-> "ok", remaining_qty |-> remaining_qty,
                   total_cost |-> total_cost]
             ELSE VwapWalkWholeLevels(side, i + 1,
                                      RSub(remaining_qty, size_float.val),
                                      RAdd(total_cost,
                                           RMul(size_float.val, price_float.val)))

\* one side's loop of get_vwap from level i on: float() of the level's price
\* and size come before the test of remaining_qty
RECURSIVE VwapWalk(_, _, _, _)
VwapWalk(side, i, remaining_qty, total_cost) ==
    IF i > Len(side)
    THEN [tag |-> "ok", remaining_qty |-> remaining_qty, total_cost |-> total_cost]
    ELSE LET price_float == FloatOf(side[i][1])
             size_float == FloatOf(side[i][2])
         IN  IF price_float.tag # "ok" \/ size_float.tag # "ok"
             THEN [tag |-> "raise", remaining_qty |-> remaining_qty,
                   total_cost |-> total_cost]
             ELSE IF RLeq(remaining_qty, Zero)
             THEN [tag |-> "ok", remaining_qty |-> remaining_qty,
                   total_cost |-> total_cost]
             ELSE LET executed_qty == RMin(remaining_qty, size_float.val)
                  IN  VwapWalk(side, i + 1, RSub(remaining_qty, executed_qty),
                               RAdd(total_cost, RMul(executed_qty, price_float.val)))

\* a VWAP over the quantity asked for (total_cost / quantity)
SideVwapOverRequested(side, quantity) ==
    LET w == VwapWalk(side, 1, quantity, Zero)
    IN  IF w.tag # "ok" THEN Raise
        ELSE IF RLess(w.remaining_qty, quantity)
             THEN Ok(RDiv(w.total_cost, quantity))
             ELSE Ok(Zero)

\* one side's VWAP for a quantity: 0.0 when nothing was filled
SideVwap(side, quantity) ==
    LET w == VwapWalk(side, 1, quantity, Zero)
    IN  IF w.tag # "ok" THEN Raise
        ELSE IF RLess(w.remaining_qty, quantity)
             THEN Ok(RDiv(w.total_cost, RSub(quantity, w.remaining_qty)))
             ELSE Ok(Zero)

\* OrderBook.get_vwap(quantity)
get_vwap(b, a, quantity) ==
    LET bid_vwap == SideVwap(b, quantity)
        ask_vwap == SideVwap(a, quantity)
    IN  IF bid_vwap.tag # "ok" \/ ask_vwap.tag # "ok"
        THEN [tag |-> "raise", bid_vwap |-> Zero, ask_vwap |-> Zero]
        ELSE [tag |-> "ok", bid_vwap |-> bid_vwap.val, ask_vwap |-> ask_vwap.val]

\* for size in [1, 5, 10, 50, 100]
VwapSizes == {1, 5, 10, 50, 100}

\* the depth get_data_for_models asks for
FeatureLevels == 5

NoFeatures ==
    [mid_price |-> Zero, spread |-> Zero, spread_pct |-> Zero, bid_depth |-> Zero,
     ask_depth |-> Zero, depth_ratio |-> One, imbalance |-> Half]

\* OrderBook.get_data_for_models(): the features the models read (the VWAP
\* ladder is computed, and may raise, but no model reads it)
get_data_for_models(b, a) ==
    LET mid_price == get_mid_price(b, a)
        spread_pct == get_spread_percentage(b, a)
        spread == get_spread(b, a)
        depth == get_depth(b, a, FeatureLevels)
        OrZero(x) == IF x.tag = "ok" THEN x.val ELSE Zero
    IN  IF mid_price.tag = "raise" \/ spread_pct.tag = "raise"
        THEN [tag |-> "raise", data |-> NoFeatures]
        ELSE IF /\ b # <<>> /\ a # <<>>
                /\ \E size \in VwapSizes : get_vwap(b, a, Rat(size)).tag = "raise"
        THEN [tag |-> "raise", data |-> NoFeatures]
        ELSE [tag |-> "ok",
              data |-> [mid_price |-> OrZero(mid_price),
                        spread |-> OrZero(spread),
                        spread_pct |-> OrZero(spread_pct),
                        bid_depth |-> depth.bids,
                        ask_depth |-> depth.asks,
                        depth_ratio |-> IF RLess(Zero, depth.asks)
                                        THEN RDiv(depth.bids, depth.asks) ELSE One,
                        imbalance |-> get_orderbook_imbalance(b, a)]]

(***************************************************************************)
(* numpy functions.  np.log1p and np.sqrt have no exact rational value;    *)
(* they are modelled by rational approximations that keep what the code    *)
(* relies on: both are 0 at 0, positive and increasing on positive         *)
(* arguments.  No claim is settled on their digits.                        *)
(***************************************************************************)
\* np.log1p(x) for x >= 0, by the Pade approximant 2x / (2 + x)
Log1p(x) == RDiv(RMul(Rat(2), x), RAdd(Rat(2), x))

\* the largest k in lo..hi with k * k <= n
RECURSIVE IntSqrt(_, _, _)
IntSqrt(n, lo, hi) ==
    IF lo >= hi THEN lo
    ELSE LET mid == (lo + hi + 1) \div 2
         IN  IF mid * mid <= n THEN IntSqrt(n, mid, hi) ELSE IntSqrt(n, lo, mid - 1)

\* np.sqrt(x) for 0 <= x <= 100, to two decimals
Sqrt(x) == Norm(IntSqrt((x[1] * 10000) \div x[2], 0, 1000), 100)

(***************************************************************************)
(* SlippageModel (src/src/models/slippage.py).  The training set is kept   *)
(* as its length; the fitted regressor is left abstract: its prediction    *)
(* may be any of Predictions.                                              *)
(***************************************************************************)
\* what the fitted regressor may predict
Predictions == {Rat(-1), Zero, <<1, 4>>}

SlippageFirstFit == 100
SlippageRefitFrom == 500
SlippageRefitEvery == 100

\* SlippageModel._train_model()
SLTrain(model) ==
    [model EXCEPT !.is_trained = TRUE, !.fitted = model.n, !.fit_at = model.n]

\* SlippageModel._collect_training_data(data, observed_slippage)
SLCollect(model) ==
    LET m1 == [model EXCEPT !.n = model.n + 1]
    IN  IF m1.n >= SlippageFirstFit /\ ~m1.is_trained THEN SLTrain(m1)
        ELSE IF m1.n >= SlippageRefitFrom /\ m1.n % SlippageRefitEvery = 0
             THEN SLTrain(m1)
             ELSE m1

\* SlippageModel.calculate(data); prediction is what model.predict would
\* answer
\* a calculate that tests is_trained before it collects the sample, as
\* MakerTakerModel.predict does
SLCalculateTestBeforeCollect(model, data, prediction) ==
    LET base_slippage == RDiv(data.spread_pct, Rat(2))
        quantity_factor == RMul(<<1, 100>>, Log1p(RDiv(data.quantity, Rat(100))))
        imbalance_factor == RMul(RSub(data.imbalance, Half), Half)
        slippage == RAdd(base_slippage,
                         RMul(quantity_factor, RAdd(One, imbalance_factor)))
        blended == IF model.is_trained
                   THEN RAdd(RMul(<<7, 10>>, prediction), RMul(<<3, 10>>, slippage))
                   ELSE slippage
    IN  [value |-> RMax(Zero, blended), model |-> SLCollect(model),
         blended |-> model.is_trained]

\* SlippageModel.calculate(data): the value returned, the model as the call
\* leaves it, and whether the regressor's prediction was blended in
SLCalculate(model, data, prediction) ==
    LET base_slippage == RDiv(data.spread_pct, Rat(2))
        quantity_factor == RMul(<<1, 100>>, Log1p(RDiv(data.quantity, Rat(100))))
        imbalance_factor == RMul(RSub(data.imbalance, Half), Half)
        slippage == RAdd(base_slippage,
                         RMul(quantity_factor, RAdd(One, imbalance_factor)))
        m1 == SLCollect(model)
        blended == IF m1.is_trained
                   THEN RAdd(RMul(<<7, 10>>, prediction), RMul(<<3, 10>>, slippage))
                   ELSE slippage
    IN  [value |-> RMax(Zero, blended), model |-> m1, blended |-> m1.is_trained]

(***************************************************************************)
(* FeeModel (src/src/models/fees.py) and the fee tiers of src/src/config.py*)
(***************************************************************************)
\* EXCHANGES["OKX"].fee_tiers, as [maker, taker]
FeeTiers ==
    [t \in {"VIP 0", "VIP 1", "VIP 2", "VIP 3", "VIP 4", "VIP 5"} |->
        CASE t = "VIP 0" -> [maker |-> <<8, 10000>>, taker |-> <<10, 10000>>]
          [] t = "VIP 1" -> [maker |-> <<7, 10000>>, taker |-> <<9, 10000>>]
          [] t = "VIP 2" -> [maker |-> <<6, 10000>>, taker |-> <<8, 10000>>]
          [] t = "VIP 3" -> [maker |-> <<5, 10000>>, taker |-> <<7, 10000>>]
          [] t = "VIP 4" -> [maker |-> <<3, 10000>>, taker |-> <<5, 10000>>]
          [] t = "VIP 5" -> [maker |-> <<0, 10000>>, taker |-> <<3, 10000>>]]

\* the exchanges of the EXCHANGES table
EXCHANGES == {"OKX"}

FeeRate(r) == Norm(r[1], r[2])

\* FeeModel.calculate(quantity, price, maker_proportion)
FeeCalculate(model, quantity, price, maker_proportion) ==
    LET trade_value == quantity
        maker_value == RMul(trade_value, maker_proportion)
        taker_value == RMul(trade_value, RSub(One, maker_proportion))
        maker_fee == RMul(maker_value, model.maker_rate)
        taker_fee == RMul(taker_value, model.taker_rate)
    IN  RAdd(maker_fee, taker_fee)

(***************************************************************************)
(* MarketImpactModel (src/src/models/market_impact.py)                     *)
(***************************************************************************)
\* MarketImpactModel._estimate_market_parameters(data), after sigma was set
MIEstimate(model, data) ==
    LET total_depth == RAdd(data.bid_depth, data.ask_depth)
        eta == IF RLess(Zero, total_depth)
               THEN RAdd(Half, RMin(One, RDiv(Rat(100), total_depth)))
               ELSE model.eta
    IN  [model EXCEPT !.eta = eta,
                      !.gamma = RAdd(<<1, 10>>, RDiv(data.spread_pct, Rat(100)))]

\* MarketImpactModel._estimate_daily_volume(data)
MIDailyVolume(data) ==
    RMax(RMul(RAdd(data.bid_depth, data.ask_depth), Rat(20)), Rat(1000))

\* MarketImpactModel.calculate(quantity, price, volatility, orderbook_data)
MICalculate(model, quantity, price, volatility, data) ==
    LET m1 == MIEstimate([model EXCEPT !.sigma = volatility], data)
        quantity_ratio == RDiv(quantity, MIDailyVolume(data))
        temporary_impact == RMul(RMul(m1.eta, m1.sigma), Sqrt(quantity_ratio))
        permanent_impact == RMul(RMul(m1.gamma, m1.sigma), quantity_ratio)
        total_impact == RAdd(temporary_impact, permanent_impact)
    IN  [value |-> RMul(total_impact, Rat(100)), model |-> m1]

(***************************************************************************)
(* MakerTakerModel (src/src/models/maker_taker.py)                         *)
(*                                                                         *)
(* The training set is kept as its length and the set of labels it holds:  *)
(* the code reads nothing else of it, except inside LogisticRegression.fit,*)
(* which raises ValueError when the labels are all of one class and whose  *)
(* fitted classifier is left abstract: predict_proba may give any          *)
(* probability.                                                            *)
(***************************************************************************)
MakerTakerFirstFit == 100
MakerTakerRefitFrom == 500
MakerTakerRefitEvery == 100

\* MakerTakerModel._train_model(): fit, then is_trained = True.
\* LogisticRegression.fit raises when the labels are of one class only; the
\* except clause logs it and the model is as before
MTTrain(model) ==
    IF Cardinality(model.labels) < 2 THEN [model EXCEPT !.fit_at = model.n]
    ELSE [model EXCEPT !.is_trained = TRUE, !.fitted = model.n, !.fit_at = model.n]

\* MakerTakerModel._collect_training_data(data, observed_proportion)
MTCollect(model, observed_proportion) ==
    LET label == IF RLess(Half, observed_proportion) THEN 1 ELSE 0
        m1 == [model EXCEPT !.n = model.n + 1,
                            !.labels = model.labels \cup {label}]
    IN  IF m1.n >= MakerTakerFirstFit /\ ~m1.is_trained THEN MTTrain(m1)
        ELSE IF m1.n >= MakerTakerRefitFrom /\ m1.n % MakerTakerRefitEvery = 0
             THEN MTTrain(m1)
             ELSE m1

\* the heuristic of an untrained model for a limit order; 10 / quantity
\* raises for quantity 0 and the except clause returns 0.0
MTHeuristic(model, data) ==
    IF data.quantity = Zero
    THEN [value |-> Zero, model |-> model, consulted |-> FALSE, raised |-> TRUE]
    ELSE LET base_proportion == Half
             spread_factor == RMin(<<3, 10>>, RDiv(data.spread_pct, Rat(10)))
             quantity_factor == RMin(<<1, 5>>, RDiv(Rat(10), data.quantity))
             maker_proportion ==
                 RMin(One, RAdd(RAdd(base_proportion, spread_factor), quantity_factor))
         IN  [value |-> maker_proportion,
              model |-> MTCollect(model, maker_proportion),
              consulted |-> FALSE, raised |-> FALSE]

\* a predict that tests is_trained before it looks at the order type
MTPredictClassifierFirst(model, data, proba) ==
    IF model.is_trained
    THEN [value |-> proba, model |-> MTCollect(model, proba),
          consulted |-> TRUE, raised |-> FALSE]
    ELSE IF data.order_type = "market"
    THEN [value |-> Zero, model |-> MTCollect(model, Zero),
          consulted |-> FALSE, raised |-> FALSE]
    ELSE MTHeuristic(model, data)

\* MakerTakerModel.predict(data); proba is what predict_proba would answer.
\* The result: the value returned, the model afterwards, whether the fitted
\* classifier was asked, and whether the except clause produced the value.
MTPredict(model, data, proba) ==
    IF data.order_type = "market"
    THEN [value |-> Zero, model |-> MTCollect(model, Zero),
          consulted |-> FALSE, raised |-> FALSE]
    ELSE IF model.is_trained
    THEN [value |-> proba, model |-> MTCollect(model, proba),
          consulted |-> TRUE, raised |-> FALSE]
    ELSE MTHeuristic(model, data)

\* the probabilities predict_proba may answer
Probabilities == {Zero, <<1, 4>>, <<3, 4>>, One}

\* a call of MakerTakerModel.predict(data)
MakerTakerPredict(data, proba) ==
    LET r == MTPredict(maker_taker_model, data, proba)
    IN  /\ maker_taker_model' = r.model
        /\ mt_call' = [order_type |-> data.order_type,
                       trained |-> maker_taker_model.is_trained,
                       value |-> r.value, consulted |-> r.consulted,
                       calls |-> IF mt_call.calls = 0 THEN 1 ELSE 2]

InitMakerTaker ==
    /\ maker_taker_model = [is_trained |-> FALSE, n |-> 0, labels |-> {},
                            fitted |-> 0, fit_at |-> 0]
    /\ mt_call = [order_type |-> "", trained |-> FALSE, value |-> Zero,
                  consulted |-> FALSE, calls |-> 0]

(***************************************************************************)
(* TradeSimulator: the latency window (src/src/models/simulator.py)        *)
(***************************************************************************)
\* "Keep only the last 100 measurements"
LatencyWindow == 100

\* a window that drops its newest sample on overflow (pop() for pop(0))
WindowDroppingNewest(history, latency) ==
    LET h == Append(history, latency)
    IN  IF Len(h) > LatencyWindow THEN SubSeq(h, 1, Len(h) - 1) ELSE h

\* latency_history after update_latency(latency): append, then pop(0) when
\* more than 100 samples are held
WindowAfter(history, latency) ==
    LET h == Append(history, latency)
    IN  IF Len(h) > LatencyWindow THEN Tail(h) ELSE h

\* TradeSimulator.update_latency(latency)
update_latency(latency) ==
    /\ latency_history' = WindowAfter(latency_history, latency)
    /\ latency_pushed' = Append(latency_pushed, latency)

\* sum(history), summed by halves to keep the evaluation shallow
RECURSIVE SumRange(_, _, _)
SumRange(seq, lo, hi) ==
    IF lo > hi THEN Zero
    ELSE IF lo = hi THEN seq[lo]
    ELSE LET mid == (lo + hi) \div 2
         IN  RAdd(SumRange(seq, lo, mid), SumRange(seq, mid + 1, hi))

SumOf(seq) == SumRange(seq, 1, Len(seq))

\* TradeSimulator.get_latency()
get_latency(history) ==
    IF history = <<>> THEN Zero
    ELSE RDiv(SumOf(history), Rat(Len(history)))

InitLatency ==
    /\ latency_history = <<>>
    /\ latency_pushed = <<>>

(***************************************************************************)
(* WebSocketManager (src/src/data/websocket_manager.py)                    *)
(*                                                                         *)
(* connect() and disconnect() run on the UI thread; every connect() that   *)
(* goes through starts a new thread running _run_websocket_loop.  A thread *)
(* is "unborn" before it is started, then at "start" (before               *)
(* websockets.connect returned), "test" (the while self.running test),     *)
(* "recv" (awaiting websocket.recv()), "process" (in _process_message) or  *)
(* "exited".                                                               *)
(***************************************************************************)
\* the most threads started
MaxThreads == 3

Threads == 1..MaxThreads

\* Thread.is_alive()
IsAlive(t) == th_pc[t] \notin {"unborn", "exited"}

\* the thread is inside the while self.running loop
InLoop(t) == th_pc[t] \in {"test", "recv", "process"}

\* an is_connected() that does not ask whether the thread is alive
ConnectedWithoutAliveTest == running /\ thread # 0

\* WebSocketManager.is_connected()
is_connected == running /\ thread # 0 /\ IsAlive(thread)

\* the fields and history of the manager other than ui_call
managerVars == <<running, thread, websocket, th_pc, ui_pc, stop_requested, late>>

\* the record of a call of op entered now: what is_connected() answered,
\* and whether it follows a call of the same operation with no step of a
\* thread since that call returned
Called(op) ==
    [op |-> op, connected |-> is_connected, fresh |-> TRUE,
     again |-> ui_call.op = op /\ ui_call.fresh]

\* a connect() without the is_connected() test
ConnectUnguarded ==
    /\ ui_pc = "idle"
    /\ ui_call' = Called("connect")
    /\ dropped' = {}
    /\ \E t \in Threads :
          /\ th_pc[t] = "unborn"
          /\ \A u \in Threads : u < t => th_pc[u] # "unborn"
          /\ thread' = t
          /\ th_pc' = [th_pc EXCEPT ![t] = "start"]
    /\ running' = TRUE
    /\ late' = [t \in Threads |-> 0]
    /\ UNCHANGED <<websocket, ui_pc, stop_requested>>

\* WebSocketManager.connect()
Connect ==
    /\ ui_pc = "idle"
    /\ ui_call' = Called("connect")
    /\ dropped' = {}
    /\ IF is_connected
       THEN UNCHANGED managerVars
       ELSE /\ \E t \in Threads :
                 /\ th_pc[t] = "unborn"
                 /\ \A u \in Threads : u < t => th_pc[u] # "unborn"
                 /\ thread' = t
                 /\ th_pc' = [th_pc EXCEPT ![t] = "start"]
            /\ running' = TRUE
            /\ late' = [t \in Threads |-> 0]
            /\ UNCHANGED <<websocket, ui_pc, stop_requested>>

\* WebSocketManager.disconnect(), up to thread.join(timeout=1.0)
DisconnectBegin ==
    /\ ui_pc = "idle"
    /\ ui_call' = Called("disconnect")
    /\ UNCHANGED dropped
    /\ IF ~is_connected
       THEN UNCHANGED managerVars
       ELSE /\ running' = FALSE
            /\ ui_pc' = "joining"
            /\ stop_requested' = stop_requested \cup {thread}
            /\ UNCHANGED <<thread, websocket, th_pc, late>>

\* WebSocketManager.disconnect(), from the return of join: the thread has
\* exited or the timeout has passed; the thread is forgotten either way
DisconnectEnd ==
    /\ ui_pc = "joining"
    /\ thread' = 0
    /\ ui_pc' = "idle"
    /\ ui_call' = [ui_call EXCEPT !.fresh = TRUE]
    /\ UNCHANGED dropped
    /\ UNCHANGED <<running, websocket, th_pc, stop_requested, late>>

\* _websocket_handler up to the loop: the exchange is unknown or
\* websockets.connect raises (the handler returns), or the connection is made
ThreadOpen(t) ==
    /\ th_pc[t] = "start"
    /\ \/ /\ th_pc' = [th_pc EXCEPT ![t] = "test"]
          /\ websocket' = t
          /\ UNCHANGED dropped
       \/ /\ th_pc' = [th_pc EXCEPT ![t] = "exited"]
          /\ websocket' = 0
          /\ dropped' = dropped \cup {t}
    /\ ui_call' = [ui_call EXCEPT !.fresh = FALSE]
    /\ UNCHANGED <<running, thread, ui_pc, stop_requested, late>>

\* a loop test that never reads self.running (while True)
LoopGoesOnUntested(t) == TRUE

\* while self.running
LoopGoesOn(t) == running

\* the loop test; leaving the loop runs the finally clause and ends the thread
ThreadTest(t) ==
    /\ th_pc[t] = "test"
    /\ IF LoopGoesOn(t)
       THEN /\ th_pc' = [th_pc EXCEPT ![t] = "recv"]
            /\ UNCHANGED websocket
       ELSE /\ th_pc' = [th_pc EXCEPT ![t] = "exited"]
            /\ websocket' = 0
    /\ ui_call' = [ui_call EXCEPT !.fresh = FALSE]
    /\ UNCHANGED dropped
    /\ UNCHANGED <<running, thread, ui_pc, stop_requested, late>>

\* await websocket.recv() returns a message, which goes to _process_message,
\* or raises ConnectionClosed, which breaks the loop
ThreadRecv(t) ==
    /\ th_pc[t] = "recv"
    /\ \/ /\ th_pc' = [th_pc EXCEPT ![t] = "process"]
          /\ late' = IF running THEN late
                     ELSE [late EXCEPT ![t] = IF @ < 2 THEN @ + 1 ELSE @]
          /\ UNCHANGED <<websocket, dropped>>
       \/ /\ th_pc' = [th_pc EXCEPT ![t] = "exited"]
          /\ websocket' = 0
          /\ dropped' = dropped \cup {t}
          /\ UNCHANGED late
    /\ ui_call' = [ui_call EXCEPT !.fresh = FALSE]
    /\ UNCHANGED <<running, thread, ui_pc, stop_requested>>

\* _process_message returns (it catches every exception itself)
ThreadProcessed(t) ==
    /\ th_pc[t] = "process"
    /\ th_pc' = [th_pc EXCEPT ![t] = "test"]
    /\ ui_call' = [ui_call EXCEPT !.fresh = FALSE]
    /\ UNCHANGED dropped
    /\ UNCHANGED <<running, thread, websocket, ui_pc, stop_requested, late>>

ThreadStep(t) ==
    \/ ThreadOpen(t)
    \/ ThreadTest(t)
    \/ ThreadRecv(t)
    \/ ThreadProcessed(t)

InitWebSocketManager ==
    /\ running = FALSE
    /\ thread = 0
    /\ websocket = 0
    /\ th_pc = [t \in Threads |-> "unborn"]
    /\ ui_pc = "idle"
    /\ stop_requested = {}
    /\ late = [t \in Threads |-> 0]
    /\ ui_call = [op |-> "", connected |-> FALSE, fresh |-> FALSE, again |-> FALSE]
    /\ dropped = {}

(***************************************************************************)
(* TradeSimulator: parameters, the model pipeline and the accessors        *)
(* (src/src/models/simulator.py), as the feed thread and the UI thread     *)
(* run them.  Each action is one stretch of code between two accesses to   *)
(* state the other thread writes or reads.                                 *)
(***************************************************************************)
\* simulator.has_data()
\* a test that lets the pipeline run on a book with one side only
HasDataOnEitherSide(b, a) == Len(b) > 0 \/ Len(a) > 0

has_data(b, a) == Len(b) > 0 /\ Len(a) > 0

\* the published state: what get_orderbook() and the five result accessors
\* return
Published(b, a, sim) ==
    [bids |-> b, asks |-> a, slippage |-> sim.slippage, fees |-> sim.fees,
     market_impact |-> sim.market_impact, net_cost |-> sim.net_cost,
     maker_proportion |-> sim.maker_proportion]

\* DEFAULT_EXCHANGE, DEFAULT_ORDER_TYPE, DEFAULT_QUANTITY,
\* DEFAULT_VOLATILITY, DEFAULT_FEE_TIER
DefaultParameters ==
    [exchange |-> "OKX", order_type |-> "market", quantity |-> Rat(100),
     volatility |-> <<1, 50>>, fee_tier |-> "VIP 0"]

\* the results as TradeSimulator.__init__ sets them
InitialResults ==
    [slippage |-> Zero, fees |-> Zero, market_impact |-> Zero, net_cost |-> Zero,
     maker_proportion |-> Zero]

\* TradeSimulator.__init__ and the models' __init__
InitSimulator ==
    /\ simulator = [exchange |-> DefaultParameters.exchange,
                    order_type |-> DefaultParameters.order_type,
                    quantity |-> DefaultParameters.quantity,
                    volatility |-> DefaultParameters.volatility,
                    fee_tier |-> DefaultParameters.fee_tier,
                    message_count |-> 0,
                    slippage |-> Zero, fees |-> Zero, market_impact |-> Zero,
                    net_cost |-> Zero, maker_proportion |-> Zero]
    /\ slippage_model = [is_trained |-> FALSE, n |-> 0, fitted |-> 0, fit_at |-> 0]
    /\ fee_model = [maker_rate |-> FeeRate(<<8, 10000>>),
                    taker_rate |-> FeeRate(<<10, 10000>>)]
    /\ market_impact_model = [sigma |-> Zero, gamma |-> <<1, 10>>, eta |-> One]
    /\ feed = [pc |-> "idle", data |-> NoFeatures, slippage_cost |-> Zero,
               quantities |-> {}, volatilities |-> {}, order_types |-> {},
               ran |-> {}, failed |-> {}]
    /\ gui = [pc |-> "idle", args |-> DefaultParameters,
              seen |-> Published(<<>>, <<>>, InitialResults), settings |-> 0]
    /\ committed = {Published(<<>>, <<>>, InitialResults)}
    /\ message_count = 0
    /\ undecodable = [count |-> 0, at |-> 0]

\* the times the two clocks measure (simulator.py:88, websocket_manager.py:123)
ProcessingLatency == Rat(1)
MessageLatency == Rat(4)

\* a _process_message that counts the message before it decodes it
MessageCountedUndecoded(count, decoded) == count + 1

\* _process_message: self.message_count += 1 is reached only when
\* json.loads(message) has returned
MessageCounted(count, decoded) == IF decoded THEN count + 1 ELSE count

\* _process_message(message) for a message json.loads raises on: the
\* except clause logs it and the handler goes back to recv()
FeedUndecodable ==
    /\ feed.pc = "idle"
    /\ message_count' = MessageCounted(message_count, FALSE)
    /\ undecodable' = [count |-> undecodable.count + 1, at |-> message_count]
    /\ UNCHANGED <<bookVars, latVars, mtVars, simulator, slippage_model, fee_model,
                   market_impact_model, feed, gui, committed>>

\* _process_message(message) for a message that decodes to m, and in it
\* process_orderbook(data) up to the first read of a parameter:
\* orderbook.update(data), message_count += 1, and in _run_models the
\* has_data() test and get_data_for_models().  All of it reads and writes
\* what only the feed thread writes.  Without data _run_models returns and
\* the latency is recorded; an exception in get_data_for_models ends
\* process_orderbook in its except clause.
FeedUpdate(m) ==
    LET r == UpdatedBook(bids, asks, m)
        features == get_data_for_models(r.bids, r.asks)
        counted == [simulator EXCEPT !.message_count = @ + 1]
    IN  /\ feed.pc = "idle"
        /\ OrderBookUpdate(m)
        /\ message_count' = MessageCounted(message_count, TRUE)
        /\ simulator' = counted
        /\ IF ~has_data(r.bids, r.asks)
           THEN /\ feed' = [feed EXCEPT !.pc = "latency", !.quantities = {},
                                        !.volatilities = {}, !.order_types = {},
                                        !.ran = {}, !.failed = {}]
                /\ committed' = committed \cup {Published(r.bids, r.asks, counted)}
           ELSE IF features.tag = "raise"
           THEN /\ feed' = [feed EXCEPT !.pc = "message_latency", !.quantities = {},
                                        !.volatilities = {}, !.order_types = {},
                                        !.ran = {}, !.failed = {}]
                /\ committed' = committed \cup {Published(r.bids, r.asks, counted)}
           ELSE /\ feed' = [feed EXCEPT !.pc = "quantity", !.data = features.data,
                                        !.quantities = {},
                                        !.volatilities = {}, !.order_types = {},
                                        !.ran = {}, !.failed = {}]
                /\ UNCHANGED committed
        /\ UNCHANGED <<latVars, mtVars, slippage_model, fee_model,
                       market_impact_model, gui>>

\* data["quantity"] = self.quantity
FeedReadQuantity ==
    /\ feed.pc = "quantity"
    /\ feed' = [feed EXCEPT !.pc = "volatility",
                            !.data = ("quantity" :> simulator.quantity) @@ @,
                            !.quantities = @ \cup {simulator.quantity}]
    /\ UNCHANGED <<bookVars, latVars, mtVars, simulator, slippage_model, fee_model,
                   market_impact_model, gui, committed>>

\* data["volatility"] = self.volatility
FeedReadVolatility ==
    /\ feed.pc = "volatility"
    /\ feed' = [feed EXCEPT !.pc = "order_type",
                            !.data = ("volatility" :> simulator.volatility) @@ @,
                            !.volatilities = @ \cup {simulator.volatility}]
    /\ UNCHANGED <<bookVars, latVars, mtVars, simulator, slippage_model, fee_model,
                   market_impact_model, gui, committed>>

\* data["order_type"] = self.order_type
FeedReadOrderType ==
    /\ feed.pc = "order_type"
    /\ feed' = [feed EXCEPT !.pc = "slippage",
                            !.data = ("order_type" :> simulator.order_type) @@ @,
                            !.order_types = @ \cup {simulator.order_type}]
    /\ UNCHANGED <<bookVars, latVars, mtVars, simulator, slippage_model, fee_model,
                   market_impact_model, gui, committed>>

\* self.slippage = self.slippage_model.calculate(data)
FeedSlippage ==
    /\ feed.pc = "slippage"
    /\ \E prediction \in IF slippage_model.n + 1 >= SlippageFirstFit
                         THEN Predictions ELSE {Zero} :
          LET r == SLCalculate(slippage_model, feed.data, prediction)
          IN  /\ simulator' = [simulator EXCEPT !.slippage = r.value]
              /\ slippage_model' = r.model
    /\ feed' = [feed EXCEPT !.pc = "maker_proportion", !.ran = @ \cup {"slippage"}]
    /\ UNCHANGED <<bookVars, latVars, mtVars, fee_model, market_impact_model, gui,
                   committed>>

\* a predict without its except clause: what it raises ends the run in the
\* except clause of process_orderbook
FeedMakerProportionPropagating ==
    /\ feed.pc = "maker_proportion"
    /\ \E proba \in IF maker_taker_model.is_trained THEN Probabilities ELSE {Zero} :
          LET r == MTPredict(maker_taker_model, feed.data, proba)
          IN  /\ MakerTakerPredict(feed.data, proba)
              /\ IF r.raised
                 THEN /\ UNCHANGED simulator
                      /\ feed' = [feed EXCEPT !.pc = "message_latency",
                                              !.failed = @ \cup {"maker_proportion"}]
                 ELSE /\ simulator' = [simulator EXCEPT !.maker_proportion = r.value]
                      /\ feed' = [feed EXCEPT !.pc = "fees",
                                              !.ran = @ \cup {"maker_proportion"}]
    /\ UNCHANGED <<bookVars, latVars, slippage_model, fee_model,
                   market_impact_model, gui, committed>>

\* self.maker_proportion = self.maker_taker_model.predict(data)
FeedMakerProportion ==
    /\ feed.pc = "maker_proportion"
    /\ \E proba \in IF maker_taker_model.is_trained THEN Probabilities ELSE {Zero} :
          /\ MakerTakerPredict(feed.data, proba)
          /\ simulator' =
                [simulator EXCEPT !.maker_proportion =
                    MTPredict(maker_taker_model, feed.data, proba).value]
          /\ feed' = [feed EXCEPT
                        !.pc = "fees",
                        !.ran = @ \cup {"maker_proportion"},
                        !.failed = IF MTPredict(maker_taker_model, feed.data,
                                                proba).raised
                                   THEN @ \cup {"maker_proportion"} ELSE @]
    /\ UNCHANGED <<bookVars, latVars, slippage_model, fee_model,
                   market_impact_model, gui, committed>>

\* self.fees = self.fee_model.calculate(quantity=self.quantity, ...)
FeedFees ==
    /\ feed.pc = "fees"
    /\ simulator' = [simulator EXCEPT !.fees =
                        FeeCalculate(fee_model, simulator.quantity,
                                     feed.data.mid_price, simulator.maker_proportion)]
    /\ feed' = [feed EXCEPT !.pc = "market_impact",
                            !.quantities = @ \cup {simulator.quantity},
                            !.ran = @ \cup {"fees"}]
    /\ UNCHANGED <<bookVars, latVars, mtVars, slippage_model, fee_model,
                   market_impact_model, gui, committed>>

\* self.market_impact = self.market_impact_model.calculate(
\*     quantity=self.quantity, ..., volatility=self.volatility, ...)
FeedMarketImpact ==
    LET r == MICalculate(market_impact_model, simulator.quantity,
                         feed.data.mid_price, simulator.volatility, feed.data)
    IN  /\ feed.pc = "market_impact"
        /\ simulator' = [simulator EXCEPT !.market_impact = r.value]
        /\ market_impact_model' = r.model
        /\ feed' = [feed EXCEPT !.pc = "slippage_cost",
                                !.quantities = @ \cup {simulator.quantity},
                                !.volatilities = @ \cup {simulator.volatility},
                                !.ran = @ \cup {"market_impact"}]
        /\ UNCHANGED <<bookVars, latVars, mtVars, slippage_model, fee_model, gui,
                       committed>>

\* slippage_cost = (self.slippage / 100) * self.quantity
FeedSlippageCost ==
    /\ feed.pc = "slippage_cost"
    /\ feed' = [feed EXCEPT !.pc = "net_cost",
                            !.slippage_cost =
                                RMul(RDiv(simulator.slippage, Rat(100)),
                                     simulator.quantity),
                            !.quantities = @ \cup {simulator.quantity}]
    /\ UNCHANGED <<bookVars, latVars, mtVars, simulator, slippage_model, fee_model,
                   market_impact_model, gui, committed>>

\* impact_cost = (self.market_impact / 100) * self.quantity
\* self.net_cost = slippage_cost + self.fees + impact_cost
\* This is the run's last write of a result.
FeedNetCost ==
    LET impact_cost == RMul(RDiv(simulator.market_impact, Rat(100)),
                            simulator.quantity)
        stored == [simulator EXCEPT !.net_cost =
                      RAdd(RAdd(feed.slippage_cost, simulator.fees), impact_cost)]
    IN  /\ feed.pc = "net_cost"
        /\ simulator' = stored
        /\ feed' = [feed EXCEPT !.pc = "latency", !.data = NoFeatures,
                                !.slippage_cost = Zero,
                                !.quantities = @ \cup {simulator.quantity},
                                !.ran = @ \cup {"net_cost"}]
        /\ committed' = committed \cup {Published(bids, asks, stored)}
        /\ UNCHANGED <<bookVars, latVars, mtVars, slippage_model, fee_model,
                       market_impact_model, gui>>

\* process_orderbook: self.update_latency(latency)
FeedLatency ==
    /\ feed.pc = "latency"
    /\ update_latency(ProcessingLatency)
    /\ feed' = [feed EXCEPT !.pc = "message_latency"]
    /\ UNCHANGED <<bookVars, mtVars, simulator, slippage_model, fee_model,
                   market_impact_model, gui, committed>>

\* _process_message: self.simulator.update_latency(latency)
FeedMessageLatency ==
    /\ feed.pc = "message_latency"
    /\ update_latency(MessageLatency)
    /\ feed' = [feed EXCEPT !.pc = "idle"]
    /\ UNCHANGED <<bookVars, mtVars, simulator, slippage_model, fee_model,
                   market_impact_model, gui, committed>>

\* what the UI thread leaves alone while it writes a parameter
notParameters ==
    <<bookVars, latVars, mtVars, slippage_model, market_impact_model, feed,
      committed>>

\* set_parameters(...): self.exchange, self.pair, self.order_type = ...
SetOrderType(args) ==
    /\ gui.pc = "idle"
    /\ simulator' = [simulator EXCEPT !.exchange = args.exchange,
                                      !.order_type = args.order_type]
    /\ gui' = [gui EXCEPT !.pc = "set_quantity", !.args = args,
                          !.settings = @ + 1]
    /\ UNCHANGED <<notParameters, fee_model>>

\* self.quantity = quantity
SetQuantity ==
    /\ gui.pc = "set_quantity"
    /\ simulator' = [simulator EXCEPT !.quantity = gui.args.quantity]
    /\ gui' = [gui EXCEPT !.pc = "set_volatility"]
    /\ UNCHANGED <<notParameters, fee_model>>

\* self.volatility = volatility
SetVolatility ==
    /\ gui.pc = "set_volatility"
    /\ simulator' = [simulator EXCEPT !.volatility = gui.args.volatility]
    /\ gui' = [gui EXCEPT !.pc = "set_fee_tier"]
    /\ UNCHANGED <<notParameters, fee_model>>

\* self.fee_tier = fee_tier
SetFeeTier ==
    /\ gui.pc = "set_fee_tier"
    /\ simulator' = [simulator EXCEPT !.fee_tier = gui.args.fee_tier]
    /\ gui' = [gui EXCEPT !.pc = "set_fee_rates"]
    /\ UNCHANGED <<notParameters, fee_model>>

\* if exchange in EXCHANGES and fee_tier in ...fee_tiers:
\*     self.fee_model.set_fee_rates(...)
SetFeeRates ==
    /\ gui.pc = "set_fee_rates"
    /\ IF gui.args.exchange \in EXCHANGES /\ gui.args.fee_tier \in DOMAIN FeeTiers
       THEN fee_model' =
                [maker_rate |-> FeeRate(FeeTiers[gui.args.fee_tier].maker),
                 taker_rate |-> FeeRate(FeeTiers[gui.args.fee_tier].taker)]
       ELSE UNCHANGED fee_model
    /\ gui' = [gui EXCEPT !.pc = "idle", !.args = DefaultParameters]
    /\ UNCHANGED <<notParameters, simulator>>

\* what a display pass leaves alone
notDisplay ==
    <<bookVars, latVars, mtVars, simulator, slippage_model, fee_model,
      market_impact_model, feed, committed>>

\* update_display(): if not self.simulator.has_data(): return
UpdateDisplay ==
    /\ gui.pc = "idle"
    /\ has_data(bids, asks)
    /\ gui' = [gui EXCEPT !.pc = "get_slippage"]
    /\ UNCHANGED notDisplay

\* self.simulator.get_slippage()
GetSlippage ==
    /\ gui.pc = "get_slippage"
    /\ gui' = [gui EXCEPT !.pc = "get_fees", !.seen.slippage = simulator.slippage]
    /\ UNCHANGED notDisplay

\* self.simulator.get_fees()
GetFees ==
    /\ gui.pc = "get_fees"
    /\ gui' = [gui EXCEPT !.pc = "get_market_impact", !.seen.fees = simulator.fees]
    /\ UNCHANGED notDisplay

\* self.simulator.get_market_impact()
GetMarketImpact ==
    /\ gui.pc = "get_market_impact"
    /\ gui' = [gui EXCEPT !.pc = "get_net_cost",
                          !.seen.market_impact = simulator.market_impact]
    /\ UNCHANGED notDisplay

\* self.simulator.get_net_cost()
GetNetCost ==
    /\ gui.pc = "get_net_cost"
    /\ gui' = [gui EXCEPT !.pc = "get_maker_proportion",
                          !.seen.net_cost = simulator.net_cost]
    /\ UNCHANGED notDisplay

\* self.simulator.get_maker_proportion()
GetMakerProportion ==
    /\ gui.pc = "get_maker_proportion"
    /\ gui' = [gui EXCEPT !.pc = "get_orderbook",
                          !.seen.maker_proportion = simulator.maker_proportion]
    /\ UNCHANGED notDisplay

\* update_orderbook_table(): self.simulator.get_orderbook(), the pass's
\* last read
GetOrderbook ==
    /\ gui.pc = "get_orderbook"
    /\ gui' = [gui EXCEPT !.pc = "displayed", !.seen.bids = bids,
                          !.seen.asks = asks]
    /\ UNCHANGED notDisplay

\* update_display() returns
DisplayReturns ==
    /\ gui.pc = "displayed"
    /\ gui' = [gui EXCEPT !.pc = "idle",
                          !.seen = Published(<<>>, <<>>, InitialResults)]
    /\ UNCHANGED notDisplay

(***************************************************************************)
(* The order book under a stream of updates.                               *)
(***************************************************************************)
\* the most levels one feed message carries, over both sides
MaxLevels == 2

RECURSIVE SeqsOfLen(_, _)
SeqsOfLen(S, n) ==
    IF n = 0 THEN {<<>>}
    ELSE {Append(s, x) : s \in SeqsOfLen(S, n - 1), x \in S}

SeqsUpTo(S, n) == UNION {SeqsOfLen(S, k) : k \in 0..n}

\* a ladder of ImbalanceLevels empty levels at one price and one level with
\* size behind them
RECURSIVE Repeat(_, _)
Repeat(x, n) == IF n = 0 THEN <<>> ELSE Append(Repeat(x, n - 1), x)

DeepSide(top, behind) ==
    Append(Repeat(<<top, "0">>, ImbalanceLevels), <<behind, "2">>)

Messages ==
    {[hasBids |-> TRUE, bids |-> p[1], hasAsks |-> TRUE, asks |-> p[2]] :
        p \in {q \in SeqsUpTo(Levels, MaxLevels) \X SeqsUpTo(Levels, MaxLevels) :
                    Len(q[1]) + Len(q[2]) <= MaxLevels}}
    \cup {[hasBids |-> TRUE, bids |-> b, hasAsks |-> FALSE, asks |-> <<>>] :
            b \in SeqsUpTo(Levels, MaxLevels)}
    \cup {[hasBids |-> FALSE, bids |-> <<>>, hasAsks |-> TRUE, asks |-> a] :
            a \in SeqsUpTo(Levels, MaxLevels)}
    \cup {[hasBids |-> FALSE, bids |-> <<>>,
           hasAsks |-> TRUE, asks |-> <<<<"101", "3">>>>]}
    \cup {[hasBids |-> TRUE, bids |-> DeepSide("10", "9.5"),
           hasAsks |-> FALSE, asks |-> <<>>],
          [hasBids |-> FALSE, bids |-> <<>>,
           hasAsks |-> TRUE, asks |-> DeepSide("9.5", "10")]}
    \cup {[hasBids |-> TRUE, bids |-> <<<<"100", "2">>, <<"99", "5">>>>,
           hasAsks |-> TRUE, asks |-> <<<<"101", "3">>, <<"102", "4">>>>]}
    \cup {[hasBids |-> TRUE, bids |-> <<<<"x", "2">>>>,
           hasAsks |-> TRUE, asks |-> <<<<"10", "0">>, <<"9.5", "2">>>>]}

InitOrderBook ==
    /\ bids = <<>>
    /\ asks = <<>>

InitAll ==
    /\ InitOrderBook
    /\ InitLatency
    /\ InitMakerTaker
    /\ InitWebSocketManager
    /\ InitSimulator

NextBook ==
    /\ \E m \in Messages : OrderBookUpdate(m)
    /\ UNCHANGED <<latVars, mtVars, connVars, simVars>>

SpecBook == InitAll /\ [][NextBook]_vars

(***************************************************************************)
(* The latency window under a stream of samples.                           *)
(***************************************************************************)
\* the most samples pushed
MaxPushes == 102

\* latencies in milliseconds; a run offers a stretch of fast updates and
\* then a stretch of slow ones, which keeps the number of windows quadratic
LatencySamples == {Rat(1), Rat(4)}

NextLat ==
    /\ Len(latency_pushed) < MaxPushes
    /\ \E l \in LatencySamples :
          /\ latency_pushed # <<>> =>
                RLeq(latency_pushed[Len(latency_pushed)], l)
          /\ update_latency(l)
    /\ UNCHANGED <<bookVars, mtVars, connVars, simVars>>

SpecLat == InitAll /\ [][NextLat]_vars

(***************************************************************************)
(* The maker/taker model under a stream of predictions.                    *)
(***************************************************************************)
\* the most training samples collected
MaxSamples == 102

\* the feature snapshots offered: market and limit orders, a quantity of 0
\* (10/quantity raises), a small and a large one, a crossed, a narrow and a
\* wide book
FeatureSnapshots ==
    [order_type : {"market", "limit"},
     quantity : {Zero, Rat(10), Rat(100)},
     spread_pct : {Rat(-10), Half, Rat(5)},
     imbalance : {Half},
     depth_ratio : {One},
     volatility : {<<1, 50>>}]

NextMT ==
    /\ maker_taker_model.n < MaxSamples
    /\ \E data \in FeatureSnapshots, proba \in Probabilities :
          MakerTakerPredict(data, proba)
    /\ UNCHANGED <<bookVars, latVars, connVars, simVars>>

SpecMT == InitAll /\ [][NextMT]_vars

(***************************************************************************)
(* The two online-fitted models over a long feed: every step is the pair   *)
(* of calls _run_models makes for one message, slippage_model.calculate    *)
(* and then maker_taker_model.predict on the same feature snapshot.        *)
(***************************************************************************)
\* the feed is cut after this many samples: past the refits at 500 and 600
MaxFitSamples == 601

\* market and limit orders of quantity 10 on a crossed and on a wide book:
\* the heuristic labels the first 0 and the second 1
FitSnapshots ==
    {d \in FeatureSnapshots :
        d.quantity = Rat(10) /\ d.spread_pct \in {Rat(-10), Rat(5)}}

\* what the fitted classifier may answer in a run
FitProbas == {<<1, 4>>, <<3, 4>>}

\* simulator.py:111-112
RunModels(data, prediction, proba) ==
    /\ slippage_model' = SLCalculate(slippage_model, data, prediction).model
    /\ maker_taker_model' = MTPredict(maker_taker_model, data, proba).model

NextFit ==
    /\ slippage_model.n < MaxFitSamples
    /\ \E data \in FitSnapshots, proba \in FitProbas :
          RunModels(data, Zero, proba)
    /\ UNCHANGED <<bookVars, latVars, connVars, mt_call, simulator, fee_model,
                   market_impact_model, feed, gui, committed, feedVars>>

SpecFit == InitAll /\ [][NextFit]_vars

(***************************************************************************)
(* The feed connector: the UI thread calling connect() and disconnect(),   *)
(* and the threads they start.                                             *)
(***************************************************************************)
\* what the feed connector leaves alone
notConnVars == <<bookVars, latVars, mtVars, simVars>>

\* a step of thread t
FeedThread(t) == ThreadStep(t) /\ UNCHANGED notConnVars

\* join returns
JoinReturns == DisconnectEnd /\ UNCHANGED notConnVars

NextConn ==
    \/ Connect /\ UNCHANGED notConnVars
    \/ DisconnectBegin /\ UNCHANGED notConnVars
    \/ JoinReturns
    \/ \E t \in Threads : ThreadOpen(t) /\ UNCHANGED notConnVars
    \/ \E t \in Threads : ThreadTest(t) /\ UNCHANGED notConnVars
    \/ \E t \in Threads : ThreadRecv(t) /\ UNCHANGED notConnVars
    \/ \E t \in Threads : ThreadProcessed(t) /\ UNCHANGED notConnVars

SpecConn == InitAll /\ [][NextConn]_vars

\* Every started thread is scheduled, the feed goes on delivering messages
\* or closes the connection (recv returns), and join returns within its
\* timeout.  Nothing obliges the UI to call connect() or disconnect().
FairSpecConn ==
    /\ InitAll /\ [][NextConn]_vars
    /\ \A t \in Threads : WF_vars(FeedThread(t))
    /\ WF_vars(JoinReturns)

(***************************************************************************)
(* The controller between its two threads: the feed thread handing         *)
(* messages to process_orderbook, the UI thread calling set_parameters     *)
(* and update_display.  No lock is taken anywhere in the source, so the    *)
(* steps of the two threads interleave freely.                             *)
(***************************************************************************)
\* the most feed messages processed
MaxMessages == 2

\* the most set_parameters calls made
MaxSettings == 1

\* the feed messages offered: two books of different depth, an update that
\* empties the bids, asks whose price is no number, and a crossed book
PipelineMessages ==
    {[hasBids |-> TRUE, bids |-> <<<<"9.5", "2">>>>,
      hasAsks |-> TRUE, asks |-> <<<<"10", "2">>>>],
     [hasBids |-> TRUE, bids |-> <<<<"9.5", "2">>, <<"9.5", "3">>>>,
      hasAsks |-> TRUE, asks |-> <<<<"10.0", "2">>>>],
     [hasBids |-> TRUE, bids |-> <<>>, hasAsks |-> FALSE, asks |-> <<>>],
     [hasBids |-> FALSE, bids |-> <<>>,
      hasAsks |-> TRUE, asks |-> <<<<"x", "2">>>>],
     [hasBids |-> TRUE, bids |-> <<<<"101", "3">>>>,
      hasAsks |-> TRUE, asks |-> <<<<"9.5", "2">>>>]}

\* the parameters the input panel may apply
ParameterChoices ==
    {[exchange |-> "OKX",
      order_type |-> "limit", quantity |-> Rat(200), volatility |-> <<1, 20>>,
      fee_tier |-> "VIP 5"]}

Next ==
    \/ /\ simulator.message_count < MaxMessages
       /\ \E m \in PipelineMessages : FeedUpdate(m)
       /\ UNCHANGED <<connVars, undecodable>>
    \/ FeedReadQuantity /\ UNCHANGED <<connVars, feedVars>>
    \/ FeedReadVolatility /\ UNCHANGED <<connVars, feedVars>>
    \/ FeedReadOrderType /\ UNCHANGED <<connVars, feedVars>>
    \/ FeedSlippage /\ UNCHANGED <<connVars, feedVars>>
    \/ FeedMakerProportion /\ UNCHANGED <<connVars, feedVars>>
    \/ FeedFees /\ UNCHANGED <<connVars, feedVars>>
    \/ FeedMarketImpact /\ UNCHANGED <<connVars, feedVars>>
    \/ FeedSlippageCost /\ UNCHANGED <<connVars, feedVars>>
    \/ FeedNetCost /\ UNCHANGED <<connVars, feedVars>>
    \/ FeedLatency /\ UNCHANGED <<connVars, feedVars>>
    \/ FeedMessageLatency /\ UNCHANGED <<connVars, feedVars>>
    \/ /\ gui.settings < MaxSettings
       /\ \E args \in ParameterChoices : SetOrderType(args)
       /\ UNCHANGED <<connVars, feedVars>>
    \/ SetQuantity /\ UNCHANGED <<connVars, feedVars>>
    \/ SetVolatility /\ UNCHANGED <<connVars, feedVars>>
    \/ SetFeeTier /\ UNCHANGED <<connVars, feedVars>>
    \/ SetFeeRates /\ UNCHANGED <<connVars, feedVars>>
    \/ UpdateDisplay /\ UNCHANGED <<connVars, feedVars>>
    \/ GetSlippage /\ UNCHANGED <<connVars, feedVars>>
    \/ GetFees /\ UNCHANGED <<connVars, feedVars>>
    \/ GetMarketImpact /\ UNCHANGED <<connVars, feedVars>>
    \/ GetNetCost /\ UNCHANGED <<connVars, feedVars>>
    \/ GetMakerProportion /\ UNCHANGED <<connVars, feedVars>>
    \/ GetOrderbook /\ UNCHANGED <<connVars, feedVars>>
    \/ DisplayReturns /\ UNCHANGED <<connVars, feedVars>>

Spec == InitAll /\ [][Next]_vars

(***************************************************************************)
(* The feed thread alone: the receive loop hands each message to           *)
(* _process_message, which drops it when it does not decode and runs the   *)
(* pipeline on it when it does.  No parameter is set meanwhile.            *)
(***************************************************************************)
\* the most messages that decode, and the most that do not
MaxFeedMessages == 3
MaxUndecodable == 2

NextFeed ==
    \/ /\ undecodable.count < MaxUndecodable
       /\ FeedUndecodable
       /\ UNCHANGED connVars
    \/ /\ message_count < MaxFeedMessages
       /\ \E m \in PipelineMessages : FeedUpdate(m)
       /\ UNCHANGED <<connVars, undecodable>>
    \/ FeedReadQuantity /\ UNCHANGED <<connVars, feedVars>>
    \/ FeedReadVolatility /\ UNCHANGED <<connVars, feedVars>>
    \/ FeedReadOrderType /\ UNCHANGED <<connVars, feedVars>>
    \/ FeedSlippage /\ UNCHANGED <<connVars, feedVars>>
    \/ FeedMakerProportion /\ UNCHANGED <<connVars, feedVars>>
    \/ FeedFees /\ UNCHANGED <<connVars, feedVars>>
    \/ FeedMarketImpact /\ UNCHANGED <<connVars, feedVars>>
    \/ FeedSlippageCost /\ UNCHANGED <<connVars, feedVars>>
    \/ FeedNetCost /\ UNCHANGED <<connVars, feedVars>>
    \/ FeedLatency /\ UNCHANGED <<connVars, feedVars>>
    \/ FeedMessageLatency /\ UNCHANGED <<connVars, feedVars>>

SpecFeed == InitAll /\ [][NextFeed]_vars

(***************************************************************************)
(* The controller with its two threads taking turns: a message is          *)
(* processed to the end before set_parameters is called, and a             *)
(* set_parameters call returns before the next message is taken.  The feed *)
(* also brings a book whose levels are all of size 0, and the caller also  *)
(* asks for a limit order of quantity 0.                                   *)
(***************************************************************************)
\* the most messages processed and the most set_parameters calls made
MaxRunMessages == 3
MaxRunSettings == 1

\* the feed messages offered
RunMessages ==
    PipelineMessages \cup
    {[hasBids |-> TRUE, bids |-> <<<<"9.5", "0">>>>,
      hasAsks |-> TRUE, asks |-> <<<<"10", "0">>>>]}

\* the arguments passed to set_parameters
RunParameters ==
    ParameterChoices \cup
    {[exchange |-> "OKX", order_type |-> "limit", quantity |-> Zero,
      volatility |-> <<1, 50>>, fee_tier |-> "VIP 0"]}

NextRuns ==
    \/ /\ gui.pc = "idle" /\ message_count < MaxRunMessages
       /\ \E m \in RunMessages : FeedUpdate(m)
       /\ UNCHANGED <<connVars, undecodable>>
    \/ FeedReadQuantity /\ UNCHANGED <<connVars, feedVars>>
    \/ FeedReadVolatility /\ UNCHANGED <<connVars, feedVars>>
    \/ FeedReadOrderType /\ UNCHANGED <<connVars, feedVars>>
    \/ FeedSlippage /\ UNCHANGED <<connVars, feedVars>>
    \/ FeedMakerProportion /\ UNCHANGED <<connVars, feedVars>>
    \/ FeedFees /\ UNCHANGED <<connVars, feedVars>>
    \/ FeedMarketImpact /\ UNCHANGED <<connVars, feedVars>>
    \/ FeedSlippageCost /\ UNCHANGED <<connVars, feedVars>>
    \/ FeedNetCost /\ UNCHANGED <<connVars, feedVars>>
    \/ FeedLatency /\ UNCHANGED <<connVars, feedVars>>
    \/ FeedMessageLatency /\ UNCHANGED <<connVars, feedVars>>
    \/ /\ feed.pc = "idle" /\ gui.settings < MaxRunSettings
       /\ \E args \in RunParameters : SetOrderType(args)
       /\ UNCHANGED <<connVars, feedVars>>
    \/ SetQuantity /\ UNCHANGED <<connVars, feedVars>>
    \/ SetVolatility /\ UNCHANGED <<connVars, feedVars>>
    \/ SetFeeTier /\ UNCHANGED <<connVars, feedVars>>
    \/ SetFeeRates /\ UNCHANGED <<connVars, feedVars>>

SpecRuns == InitAll /\ [][NextRuns]_vars

(***************************************************************************)
(* The UI thread alone: one set_parameters call after the other, with      *)
(* whatever arguments the caller passes, among them an exchange and a fee  *)
(* tier the EXCHANGES table does not hold.                                 *)
(***************************************************************************)
\* the most set_parameters calls made
MaxCalls == 3

\* the arguments passed to set_parameters
ParameterCalls ==
    [exchange : {"OKX", "Binance"}, order_type : {"market", "limit"},
     quantity : {Rat(100)}, volatility : {<<1, 50>>},
     fee_tier : {"VIP 0", "VIP 5", "VIP 9"}]

NextParams ==
    \/ /\ gui.settings < MaxCalls
       /\ \E args \in ParameterCalls : SetOrderType(args)
       /\ UNCHANGED <<connVars, feedVars>>
    \/ SetQuantity /\ UNCHANGED <<connVars, feedVars>>
    \/ SetVolatility /\ UNCHANGED <<connVars, feedVars>>
    \/ SetFeeTier /\ UNCHANGED <<connVars, feedVars>>
    \/ SetFeeRates /\ UNCHANGED <<connVars, feedVars>>

SpecParams == InitAll /\ [][NextParams]_vars

(***************************************************************************)
(* Claims about the order book (checked under SpecBook).                   *)
(***************************************************************************)
PriceAt(side, i) == PriceKey(side[i]).val
SizeAt(side, i) == FloatOf(side[i][2]).val

StrictlyDescending(side) ==
    \A i \in 1..(Len(side) - 1) : RLess(PriceAt(side, i + 1), PriceAt(side, i))
StrictlyAscending(side) ==
    \A i \in 1..(Len(side) - 1) : RLess(PriceAt(side, i), PriceAt(side, i + 1))
NonIncreasing(side) ==
    \A i \in 1..(Len(side) - 1) : RLeq(PriceAt(side, i + 1), PriceAt(side, i))
NonDecreasing(side) ==
    \A i \in 1..(Len(side) - 1) : RLeq(PriceAt(side, i), PriceAt(side, i + 1))

StoredPricesParse == AllPricesParse(bids) /\ AllPricesParse(asks)

\* C5: after every OrderBook.update call, for any input levels, bids is
\* sorted strictly by price descending and asks strictly ascending (so
\* every stored price is a number).
C5_StrictlySorted ==
    /\ StoredPricesParse
    /\ StrictlyDescending(bids)
    /\ StrictlyAscending(asks)

\* What the sort does give: while every stored price is a number, bids is
\* sorted by price non-increasing and asks non-decreasing (levels at equal
\* prices are kept, not merged).
SortedAllowingTies ==
    StoredPricesParse => NonIncreasing(bids) /\ NonDecreasing(asks)

\* the summed size of the first n levels of a side, level by level
TopSizes(side, n) == {i \in 1..Len(side) : i <= n}
RECURSIVE SumSizes(_, _)
SumSizes(side, I) ==
    IF I = {} THEN Zero
    ELSE LET i == CHOOSE j \in I : TRUE
         IN  RAdd(SizeAt(side, i), SumSizes(side, I \ {i}))
Top5Total == RAdd(SumSizes(bids, TopSizes(bids, 5)), SumSizes(asks, TopSizes(asks, 5)))

NonNegativeSizes ==
    /\ \A i \in 1..Len(bids) : RLeq(Zero, SizeAt(bids, i))
    /\ \A i \in 1..Len(asks) : RLeq(Zero, SizeAt(asks, i))

\* C9: for every book with non-negative sizes get_orderbook_imbalance is in
\* [0,1], and it is exactly 0.5 when the top 5 bid sizes plus the top 5 ask
\* sizes sum to 0.
C9_ImbalanceRange ==
    NonNegativeSizes =>
        LET im == get_orderbook_imbalance(bids, asks)
        IN  /\ RLeq(Zero, im) /\ RLeq(im, One)
            /\ (Top5Total = Zero => im = Half)

\* a book whose top 5 levels are empty on both sides while a sixth bid level
\* has size: the imbalance is 0.5 although the book holds volume
C9_Witness ==
    /\ Len(bids) = 6 /\ asks # <<>>
    /\ Top5Total = Zero
    /\ SizeAt(bids, 6) = Rat(2)
    /\ get_orderbook_imbalance(bids, asks) = Half

\* C10 as stated: with empty bids and non-empty asks, mid price and spread
\* are unavailable and the imbalance is 0.5.
C10_EmptyBidsNeutral ==
    (bids = <<>> /\ asks # <<>>) =>
        /\ get_mid_price(bids, asks) = None
        /\ get_spread(bids, asks) = None
        /\ get_orderbook_imbalance(bids, asks) = Half

\* C10 amended: with empty bids and non-empty asks, mid price and spread are
\* unavailable; the imbalance is 0.0 when the top 5 ask levels hold any
\* size, and 0.5 only when their sizes sum to 0.
C10_EmptyBidsImbalance ==
    (bids = <<>> /\ asks # <<>>) =>
        /\ get_mid_price(bids, asks) = None
        /\ get_spread(bids, asks) = None
        /\ get_orderbook_imbalance(bids, asks) =
              (IF SumSizes(asks, TopSizes(asks, 5)) = Zero THEN Half ELSE Zero)

\* empty bids and an ask with size 2
C10_Witness ==
    /\ bids = <<>> /\ Len(asks) = 1
    /\ SizeAt(asks, 1) = Rat(2)
    /\ get_orderbook_imbalance(bids, asks) = Zero

\* the quantities get_vwap is asked for: none, less than a level, a level,
\* more than a level, more than any side holds
VwapQuantities == {Zero, Rat(1), Rat(2), Rat(3), Rat(5), Rat(1000)}

BidVwap(q) == get_vwap(bids, asks, q).bid_vwap
AskVwap(q) == get_vwap(bids, asks, q).ask_vwap

\* C11 as stated: for a sorted book and any two quantities q1 <= q2,
\* including 0, ask_vwap(q1) <= ask_vwap(q2) and bid_vwap(q1) >= bid_vwap(q2).
C11_VwapMonotone ==
    StoredPricesParse =>
        \A q1, q2 \in VwapQuantities :
            RLeq(q1, q2) =>
                /\ RLeq(AskVwap(q1), AskVwap(q2))
                /\ RLeq(BidVwap(q2), BidVwap(q1))

\* C11 amended: ask_vwap(q1) <= ask_vwap(q2) for all 0 <= q1 <= q2, and
\* bid_vwap(q1) >= bid_vwap(q2) for all 0 < q1 <= q2; for quantity 0
\* nothing is filled and both VWAPs are 0.0.
C11_VwapMonotoneFromFirstUnit ==
    StoredPricesParse =>
        /\ AskVwap(Zero) = Zero /\ BidVwap(Zero) = Zero
        /\ \A q1, q2 \in VwapQuantities :
              RLeq(q1, q2) =>
                  /\ RLeq(AskVwap(q1), AskVwap(q2))
                  /\ RLess(Zero, q1) => RLeq(BidVwap(q2), BidVwap(q1))

\* two bid levels with size at different prices: a larger quantity reaches
\* the second level and sells at a lower average
C11_Witness ==
    /\ Len(bids) = 2 /\ StoredPricesParse
    /\ RLess(PriceAt(bids, 2), PriceAt(bids, 1))
    /\ RLess(BidVwap(Rat(3)), BidVwap(Rat(1)))
    /\ RLess(Zero, BidVwap(Rat(3)))

\* what level i of a side gives to a quantity q walked from the best level
\* outward: min(remaining, size), where remaining is q less the sizes
\* before level i
TakenAt(side, i, q) ==
    RMax(Zero, RMin(SizeAt(side, i), RSub(q, SumSizes(side, 1..(i - 1)))))

RECURSIVE SumTaken(_, _, _)
SumTaken(side, I, q) ==
    IF I = {} THEN Zero
    ELSE LET i == CHOOSE j \in I : TRUE
         IN  RAdd(TakenAt(side, i, q), SumTaken(side, I \ {i}, q))

RECURSIVE CostTaken(_, _, _)
CostTaken(side, I, q) ==
    IF I = {} THEN Zero
    ELSE LET i == CHOOSE j \in I : TRUE
         IN  RAdd(RMul(TakenAt(side, i, q), PriceAt(side, i)),
                  CostTaken(side, I \ {i}, q))

\* total cost over the quantity actually filled; 0.0 when nothing is filled
PartialFillVwap(side, q) ==
    LET filled == SumTaken(side, 1..Len(side), q)
    IN  IF filled = Zero THEN Zero
        ELSE RDiv(CostTaken(side, 1..Len(side), q), filled)

\* C12: get_vwap walks a side from the best level outward taking
\* min(remaining, level size) at each level's price; when the side cannot
\* fill the quantity it returns total cost / quantity filled and raises no
\* error.
C12_PartialFillVwap ==
    StoredPricesParse =>
        \A q \in VwapQuantities :
            LET v == get_vwap(bids, asks, q)
            IN  /\ v.tag = "ok"
                /\ v.bid_vwap = PartialFillVwap(bids, q)
                /\ v.ask_vwap = PartialFillVwap(asks, q)

\* quantity 1000 against a single ask of size 3 at price 101 gives 101
C12_Witness ==
    /\ asks = <<<<"101", "3">>>>
    /\ get_vwap(bids, asks, Rat(1000)).tag = "ok"
    /\ AskVwap(Rat(1000)) = Rat(101)

(***************************************************************************)
(* Claims about the latency window (checked under SpecLat).                *)
(***************************************************************************)
\* the last n elements of a sequence
LastN(seq, n) ==
    IF Len(seq) <= n THEN seq ELSE SubSeq(seq, Len(seq) - n + 1, Len(seq))

\* the sum of a sequence of samples, value by value: each value times the
\* number of places that hold it
RECURSIVE SumByValue(_, _)
SumByValue(seq, V) ==
    IF V = {} THEN Zero
    ELSE LET v == CHOOSE x \in V : TRUE
             n == Cardinality({i \in 1..Len(seq) : seq[i] = v})
         IN  RAdd(RMul(v, Rat(n)), SumByValue(seq, V \ {v}))

MeanOfRetained ==
    LET kept == LastN(latency_pushed, 100)
    IN  IF kept = <<>> THEN Zero
        ELSE RDiv(SumByValue(kept, {kept[i] : i \in 1..Len(kept)}), Rat(Len(kept)))

\* C8: after any sequence of update_latency calls the window holds at most
\* 100 samples, they are the most recent ones in arrival order, and
\* get_latency is the mean of exactly those (0.0 when there are none).
C8_LatencyWindow ==
    /\ Len(latency_history) <= 100
    /\ latency_history = LastN(latency_pushed, 100)
    /\ get_latency(latency_history) = MeanOfRetained

\* 101 samples were pushed, the first of them fast and since evicted, so
\* that the mean is that of the 100 retained samples only
C8_Witness ==
    /\ Len(latency_pushed) = 101
    /\ latency_pushed[1] = Rat(1)
    /\ latency_pushed[2] = Rat(4)
    /\ Len(latency_history) = 100
    /\ get_latency(latency_history) = Rat(4)

(***************************************************************************)
(* Claims about MakerTakerModel (checked under SpecMT).                    *)
(***************************************************************************)
\* C7: MakerTakerModel.predict returns exactly 0.0 for every call with
\* order_type = market, trained or not, and does not ask the fitted
\* classifier for such a call.
C7_MarketIsAllTaker ==
    (mt_call.calls > 0 /\ mt_call.order_type = "market") =>
        /\ mt_call.value = Zero
        /\ ~mt_call.consulted

\* a market order was predicted by a model that was already trained
C7_Witness ==
    /\ mt_call.order_type = "market"
    /\ mt_call.trained
    /\ mt_call.value = Zero
    /\ maker_taker_model.n > 100

(***************************************************************************)
(* Claims about the online fitting of SlippageModel and MakerTakerModel    *)
(* (checked under SpecFit).                                                *)
(***************************************************************************)
\* the sample count of the fit a model of n samples should be carrying
FitSchedule(n) ==
    IF n < 100 THEN 0 ELSE IF n < 500 THEN 100 ELSE (n \div 100) * 100

\* the last _train_model call, and the parameters in use, are those of the
\* scheduled sample count
OnSchedule(model) ==
    /\ model.fit_at = FitSchedule(model.n)
    /\ model.fitted = FitSchedule(model.n)

\* the schedule as SlippageModel keeps it
SlippageOnSchedule == OnSchedule(slippage_model)

\* C13: for SlippageModel and MakerTakerModel a fit is performed when the
\* training set reaches 100 samples, none for the counts 101 to 499, and
\* a refit exactly at 500, 600, 700, ...; between fits the fitted
\* parameters are unchanged.
C13_FitSchedule == OnSchedule(slippage_model) /\ OnSchedule(maker_taker_model)

\* SlippageModel refitted at 600 while MakerTakerModel, fed market orders
\* first, made its first fit off the schedule
C13_OffSchedule ==
    /\ slippage_model.n = 600 /\ slippage_model.fitted = 600
    /\ maker_taker_model.n = 600 /\ maker_taker_model.fit_at = 600
    /\ maker_taker_model.fitted = 0

Trained(model) == model.is_trained

\* the state a model of this many samples is meant to be in
TrainedFrom100(model) == Trained(model) <=> model.n >= 100

\* SlippageModel follows the state machine
SlippageTrainedFrom100 ==
    /\ [](TrainedFrom100(slippage_model))
    /\ [][Trained(slippage_model) => Trained(slippage_model')]_vars

\* C14: each online-fitted model is Untrained while it holds fewer than 100
\* samples, Trained in every state where it holds 100 or more, and never
\* goes from Trained back to Untrained.
C14_TrainedFrom100 ==
    /\ [](TrainedFrom100(slippage_model) /\ TrainedFrom100(maker_taker_model))
    /\ [][/\ Trained(slippage_model) => Trained(slippage_model')
          /\ Trained(maker_taker_model) => Trained(maker_taker_model')]_vars

\* MakerTakerModel holds 600 samples, all of one label, and is Untrained
C14_UntrainedAt600 ==
    /\ maker_taker_model.n = 600
    /\ ~Trained(maker_taker_model)
    /\ Trained(slippage_model)

(***************************************************************************)
(* Claims about the feed connector (checked under SpecConn, the liveness   *)
(* claim under FairSpecConn).                                              *)
(***************************************************************************)
\* this step is the entry of a call of op
CallStep(op) == ui_pc = "idle" /\ ui_call' # ui_call /\ ui_call'.fresh /\ ui_call'.op = op

\* the step leaves every field of the manager, and its threads, as they were
NoEffect == UNCHANGED <<running, thread, websocket, th_pc, ui_pc>>

\* C15: connect() called while is_connected() is true starts no new receive
\* loop and changes no state, disconnect() called while is_connected() is
\* false changes no state, and the second of two calls of the same
\* operation in a row changes nothing.
C15_CallsIdempotent ==
    [][/\ (CallStep("connect") /\ is_connected) => NoEffect
       /\ (CallStep("disconnect") /\ ~is_connected) => NoEffect
       /\ ((CallStep("connect") \/ CallStep("disconnect")) /\ ui_call'.again)
             => NoEffect]_vars

\* connect() came right after a connect() that had started a loop, and
\* found the manager connected
C15_Witness ==
    /\ ui_call.op = "connect" /\ ui_call.again /\ ui_call.connected /\ ui_call.fresh
    /\ Cardinality({t \in Threads : th_pc[t] # "unborn"}) = 1

\* disconnect() came right after a disconnect() that had stopped a loop
C15_SecondDisconnect ==
    /\ ui_call.op = "disconnect" /\ ui_call.again /\ ~ui_call.connected
    /\ ui_call.fresh /\ stop_requested # {} /\ ui_pc = "idle"

\* a thread is started in this step
LoopStarted == \E t \in Threads : th_pc[t] = "unborn" /\ th_pc'[t] # "unborn"

\* C16: when the remote side closes the connection, or the connection
\* attempt fails, the receive loop exits, is_connected() becomes false, and
\* no new loop is started until connect() is called explicitly; a later
\* connect() then starts a loop again.  The connection is that of the
\* thread the manager holds, the one is_connected() asks about.
C16_RemoteCloseDisconnects ==
    /\ [](thread \in dropped => th_pc[thread] = "exited" /\ ~is_connected)
    /\ [][(thread \in dropped) => (CallStep("connect") <=> LoopStarted)]_vars

\* the remote side closed the connection of the only loop there was, and a
\* later connect() started a second one
C16_Reconnected ==
    /\ th_pc[1] = "exited" /\ 1 \notin stop_requested
    /\ thread = 2 /\ th_pc[2] = "recv" /\ th_pc[3] = "unborn"
    /\ ui_call.op = "connect" /\ ~ui_call.connected

\* C2: after any sequence of connect() and disconnect() calls and remote
\* events, at most one receive loop is running at any time.
C2_OneReceiveLoop == Cardinality({t \in Threads : InLoop(t)}) <= 1

\* C3 as stated: once disconnect() has set running to false, no message
\* received afterwards is handed to the controller (until connect() is
\* called again).
C3_NoMessageAfterStop == \A t \in Threads : late[t] = 0

\* C3 amended: a loop stops handing messages to the controller when it
\* observes the stop signal at its loop test; a loop that is waiting in
\* recv() when disconnect() sets running to false still hands the next
\* message it receives, and no more than that one, to the controller,
\* until connect() is called again.
C3_AtMostOneLateMessage == \A t \in Threads : late[t] <= 1

\* after a disconnect() a loop is processing a message it received while
\* running was false
C3_Witness ==
    \E t \in Threads :
        /\ ~running
        /\ t \in stop_requested
        /\ th_pc[t] = "process"
        /\ late[t] = 1

\* C4: after every disconnect() call on a connected manager, the receive
\* loop that was running at that moment eventually exits, whatever
\* connect()/disconnect() calls follow.
C4_StoppedLoopExits ==
    \A t \in Threads : [](t \in stop_requested => <>(th_pc[t] = "exited"))

(***************************************************************************)
(* Claims about the controller between its threads (checked under Spec).   *)
(***************************************************************************)
\* this step takes a message that does not decode
UndecodableStep == undecodable'.count # undecodable.count

\* this step takes, at recv(), a message that decodes
DecodedStep == feed.pc = "idle" /\ ~UndecodableStep /\ feed' # feed

\* C17: a feed message that fails to decode is dropped: the book, the cost
\* estimate, both message counters, the latency window and the training
\* sets are unchanged by it, the receive loop keeps running (it is at
\* recv() again), and the next well-formed message is processed normally
\* (it is counted by both counters and updates the book).
C17_UndecodableDropped ==
    /\ [][UndecodableStep =>
            /\ UNCHANGED <<bids, asks, simulator, message_count, latency_history,
                           slippage_model, maker_taker_model, fee_model,
                           market_impact_model>>
            /\ feed'.pc = "idle"]_vars
    /\ [][(DecodedStep /\ undecodable.count > 0) =>
            /\ message_count' = message_count + 1
            /\ simulator'.message_count = simulator.message_count + 1
            /\ \E m \in PipelineMessages :
                  <<bids', asks'>> =
                      <<UpdatedBook(bids, asks, m).bids, UpdatedBook(bids, asks, m).asks>>]_vars

\* a message that did not decode came after the first message, and the
\* message after it went through the whole pipeline
C17_Witness ==
    /\ undecodable.count = 1 /\ undecodable.at = 1
    /\ message_count = 2 /\ simulator.message_count = 2
    /\ feed.pc = "idle"
    /\ Len(latency_history) = 4
    /\ slippage_model.n = 2
    /\ RLess(Zero, simulator.net_cost)

\* the feed thread is at recv(): every message taken so far is processed
AtRecv == feed.pc = "idle"

\* C21: each feed message processed through the feed connector adds exactly
\* one sample to the latency window and increases the controller's message
\* count by exactly one, the count being incremented after the latency
\* sample is recorded (so the samples recorded are never fewer than the
\* messages counted).
C21_OneSamplePerMessage ==
    /\ simulator.message_count = message_count
    /\ Len(latency_pushed) >= simulator.message_count
    /\ AtRecv => Len(latency_pushed) = simulator.message_count

\* one message went through the connector and left two latency samples,
\* that of process_orderbook and that of _process_message
C21_TwoSamples ==
    /\ AtRecv /\ message_count = 1 /\ simulator.message_count = 1
    /\ latency_pushed = <<ProcessingLatency, MessageLatency>>

\* the controller's count moves by exactly one per decoded message
CountedOncePerMessage ==
    [][simulator'.message_count = simulator.message_count + 1
       \/ simulator'.message_count = simulator.message_count]_vars

\* the feed thread has left _run_models
RunOver == feed.pc \in {"latency", "message_latency", "idle"}

\* every step of _run_models
RunSteps == {"slippage", "maker_proportion", "fees", "market_impact", "net_cost"}

LevelCount(side, l) == Cardinality({i \in 1..Len(side) : side[i] = l})

LevelsOf(side) == {side[i] : i \in 1..Len(side)}

\* s and t hold the same levels, each as often, in whatever order
SameLevels(s, t) ==
    /\ Len(s) = Len(t)
    /\ \A l \in LevelsOf(s) \cup LevelsOf(t) : LevelCount(s, l) = LevelCount(t, l)

\* the frame of update(m) on one side: present, the stored side becomes the
\* message's levels and nothing else; absent, it is what it was
SideFrame(present, given, before, after) ==
    IF present THEN SameLevels(after, given) ELSE after = before

\* C23: in every OrderBook.update call a side present in the message
\* replaces the stored side entirely (the stored side holds the message's
\* levels and no level of the previous side), and a side absent from the
\* message leaves the stored side unchanged.
C23_PresentReplacedAbsentKept ==
    [][\A m \in Messages :
          OrderBookUpdate(m) =>
              /\ SideFrame(m.hasBids, m.bids, bids, bids')
              /\ SideFrame(m.hasAsks, m.asks, asks, asks')]_vars

\* What holds of an absent side: it keeps its levels, each as often, and
\* is unchanged whenever it was sorted before the call.
AbsentSideKeepsLevels ==
    [][\A m \in Messages :
          OrderBookUpdate(m) =>
              /\ SideFrame(m.hasBids, m.bids, bids, bids') \/ ~m.hasBids
              /\ SideFrame(m.hasAsks, m.asks, asks, asks') \/ ~m.hasAsks
              /\ ~m.hasBids => SameLevels(bids', bids)
              /\ ~m.hasAsks => SameLevels(asks', asks)
              /\ (~m.hasAsks /\ AllPricesParse(asks) /\ NonDecreasing(asks))
                    => asks' = asks
              /\ (~m.hasBids /\ AllPricesParse(bids) /\ NonIncreasing(bids))
                    => bids' = bids]_vars

\* a failed update left the asks as received, out of order
C23_AsksLeftUnsorted ==
    /\ asks = <<<<"10", "0">>, <<"9.5", "2">>>>
    /\ bids = <<<<"x", "2">>>>

\* the highest and the lowest price a side holds: the price of its first
\* level once bids are sorted descending and asks ascending
HighestPrice(side) ==
    CHOOSE p \in {PriceAt(side, i) : i \in 1..Len(side)} :
        \A j \in 1..Len(side) : RLeq(PriceAt(side, j), p)
LowestPrice(side) ==
    CHOOSE p \in {PriceAt(side, i) : i \in 1..Len(side)} :
        \A j \in 1..Len(side) : RLeq(p, PriceAt(side, j))

BothSides == bids # <<>> /\ asks # <<>>

MidAndSpreadOfBest ==
    /\ get_mid_price(bids, asks)
          = Ok(RDiv(RAdd(HighestPrice(bids), LowestPrice(asks)), Rat(2)))
    /\ get_spread(bids, asks) = Ok(RSub(LowestPrice(asks), HighestPrice(bids)))

NoneExactlyWhenASideIsEmpty ==
    /\ get_mid_price(bids, asks) = None <=> ~BothSides
    /\ get_spread(bids, asks) = None <=> ~BothSides

ExampleBook ==
    /\ bids = <<<<"100", "2">>, <<"99", "5">>>>
    /\ asks = <<<<"101", "3">>, <<"102", "4">>>>

ExampleValues ==
    /\ get_mid_price(bids, asks) = Ok(<<201, 2>>)
    /\ get_spread(bids, asks) = Ok(Rat(1))
    /\ BidVwap(Rat(1)) = Rat(100)
    /\ AskVwap(Rat(1)) = Rat(101)

\* C24: whenever both sides are non-empty get_mid_price returns (best bid
\* + best ask)/2 and get_spread returns best ask - best bid, best being
\* the first level after sorting; both return None exactly when a side is
\* empty; the book bids [[100,2],[99,5]], asks [[101,3],[102,4]] gives mid
\* 100.5, spread 1, bid_vwap(1) = 100 and ask_vwap(1) = 101.
C24_MidAndSpread ==
    /\ BothSides => StoredPricesParse /\ MidAndSpreadOfBest
    /\ NoneExactlyWhenASideIsEmpty
    /\ ExampleBook => ExampleValues

\* What holds: the same, of every stored book whose prices are numbers.
MidAndSpreadOfNumericBook ==
    /\ (BothSides /\ StoredPricesParse) => MidAndSpreadOfBest
    /\ NoneExactlyWhenASideIsEmpty
    /\ ExampleBook => ExampleValues

\* the example book stored, with its values
C24_ExampleStored == ExampleBook /\ ExampleValues

\* both sides hold levels and get_mid_price raises on the first bid
C24_MidPriceRaises ==
    /\ BothSides
    /\ get_mid_price(bids, asks) = Raise

\* update(m) fails: sorted() raises on a price that is no number
UpdateFails(m) == ~UpdatedBook(bids, asks, m).ok

StoredBookSorted ==
    /\ StoredPricesParse
    /\ NonIncreasing(bids)
    /\ NonDecreasing(asks)

\* C25: an OrderBook.update call that fails leaves the stored book (bids
\* and asks, with timestamp, exchange, symbol and update_count) exactly as
\* it was before the call, so the stored book is sorted in every reachable
\* state.
C25_FailedUpdateKeepsBook ==
    /\ [][\A m \in Messages :
            (OrderBookUpdate(m) /\ UpdateFails(m)) =>
                (bids' = bids /\ asks' = asks)]_vars
    /\ []StoredBookSorted

\* a failed update has replaced a sorted book by an unsorted one
C25_UnsortedStored ==
    /\ AllPricesParse(asks) /\ ~NonDecreasing(asks)
    /\ ~AllPricesParse(bids)

\* the results _run_models stores
Results(sim) ==
    <<sim.slippage, sim.maker_proportion, sim.fees, sim.market_impact, sim.net_cost>>

\* a step that takes a message from recv() into process_orderbook
MessageTaken == feed.pc = "idle" /\ feed'.pc # "idle"

\* C26: when an update leaves either side of the book empty the pipeline
\* does not run: slippage, maker proportion, fee, market impact and net
\* cost keep their previous values and neither training set receives a
\* sample, while the message count still increases by one.
C26_EmptySideSkipsRun ==
    [][(MessageTaken /\ (bids' = <<>> \/ asks' = <<>>)) =>
          /\ feed'.pc = "latency"
          /\ Results(simulator') = Results(simulator)
          /\ slippage_model' = slippage_model
          /\ maker_taker_model' = maker_taker_model
          /\ market_impact_model' = market_impact_model
          /\ simulator'.message_count = simulator.message_count + 1
          /\ message_count' = message_count + 1]_vars

\* between the skipped run and the next recv() only latency is recorded
LatencyStepsKeepResults ==
    [][feed.pc \in {"latency", "message_latency"} =>
          /\ feed'.pc \in {"message_latency", "idle"}
          /\ Results(simulator') = Results(simulator)
          /\ slippage_model' = slippage_model
          /\ maker_taker_model' = maker_taker_model]_vars

\* a message that emptied the bids was counted after a run had stored
\* results and samples, and both are still there
C26_Witness ==
    /\ bids = <<>> /\ asks # <<>>
    /\ feed.pc = "latency"
    /\ simulator.message_count = 2
    /\ RLess(Zero, simulator.net_cost)
    /\ slippage_model.n = 1
    /\ maker_taker_model.n = 1
    /\ feed.ran = {}

\* MarketImpactModel as __init__ leaves it
FreshImpactModel == [sigma |-> Zero, gamma |-> <<1, 10>>, eta |-> One]

\* calculate() with the current run's arguments on a model no call was
\* made on before
ImpactOfArguments ==
    MICalculate(FreshImpactModel, feed.data["quantity"], feed.data.mid_price,
                feed.data["volatility"], feed.data).value

\* calculate() has just returned into _run_models
ImpactCalculated == feed.pc = "slippage_cost"

TopDepth == RAdd(feed.data.bid_depth, feed.data.ask_depth)

\* C27: MarketImpactModel.calculate is a function of its current arguments
\* only: the value a call returns is the value the same quantity,
\* volatility and orderbook features give whatever calls were made before,
\* including when the combined top-5 depth is 0.
C27_ImpactOfArgumentsOnly ==
    ImpactCalculated => simulator.market_impact = ImpactOfArguments

\* What holds: the same for every call whose combined depth is positive.
ImpactOfArgumentsWithDepth ==
    (ImpactCalculated /\ RLess(Zero, TopDepth)) =>
        simulator.market_impact = ImpactOfArguments

\* a call on a book without depth answers with the eta an earlier call left
C27_StaleEta ==
    /\ ImpactCalculated
    /\ TopDepth = Zero
    /\ market_impact_model.eta = <<3, 2>>
    /\ RLess(ImpactOfArguments, simulator.market_impact)

\* the last run the switch is about: the one after the 100th sample
LastSwitchRun == 101

\* what one of the first LastSwitchRun pipeline runs returns: sl and mt are
\* the results of SlippageModel.calculate and MakerTakerModel.predict in
\* the run that takes the models from this state to the next
SwitchInRun(P(_, _, _, _)) ==
    slippage_model.n < LastSwitchRun =>
        \A data \in FitSnapshots, proba \in FitProbas :
            RunModels(data, Zero, proba) =>
                P(data, proba, SLCalculate(slippage_model, data, Zero),
                  MTPredict(maker_taker_model, data, proba))

\* no run before the one that appends the 100th sample uses a fitted model
HeuristicsBefore100(data, proba, sl, mt) ==
    slippage_model.n < 99 => ~sl.blended /\ ~mt.consulted

\* the run that appends the 100th sample, both fits succeeding, returns the
\* blended slippage and, for a limit order, the classifier's output
BothSwitchAt100(data, proba, sl, mt) ==
    /\ HeuristicsBefore100(data, proba, sl, mt)
    /\ (slippage_model.n = 99 /\ sl.model.is_trained /\ mt.model.is_trained) =>
          /\ sl.blended
          /\ data.order_type = "limit" => mt.consulted

\* the run that appends the 100th sample returns the blended slippage and
\* not yet the classifier's output; the next run does, for a limit order
ClassifierOneRunLater(data, proba, sl, mt) ==
    /\ HeuristicsBefore100(data, proba, sl, mt)
    /\ (slippage_model.n = 99 /\ sl.model.is_trained /\ mt.model.is_trained) =>
          /\ sl.blended
          /\ ~mt.consulted
    /\ (slippage_model.n = 100 /\ maker_taker_model.fitted = 100) =>
          /\ sl.blended
          /\ data.order_type = "limit" => (mt.consulted /\ mt.value = proba)

\* C28: assuming fits succeed, both online models switch to their fitted
\* output in the same pipeline run: the run that appends the 100th sample
\* is the first run in which SlippageModel returns the regressor-blended
\* value and also the first in which MakerTakerModel, for a limit order,
\* returns the classifier's output.
C28_BothSwitchInRun100 == [][SwitchInRun(BothSwitchAt100)]_vars

\* C28 amended: the run that appends the 100th sample is the first in
\* which SlippageModel returns the blended value; MakerTakerModel answers
\* that run without its classifier and returns the classifier's output for
\* a limit order from the next run, the 101st, on.
C28_ClassifierOneRunLater == [][SwitchInRun(ClassifierOneRunLater)]_vars

\* the 101st run has been made on two models fitted at 100 samples
C28_Witness ==
    /\ slippage_model.n = 101 /\ slippage_model.fitted = 100
    /\ maker_taker_model.n = 101 /\ maker_taker_model.fitted = 100
    /\ maker_taker_model.is_trained

\* C20: the maker_proportion of every CostEstimate lies in [0,1], for every
\* book the store accepts (including a crossed book, whose spread_pct is
\* negative) and every order type and quantity.
C20_MakerProportionRange ==
    /\ RLeq(Zero, simulator.maker_proportion)
    /\ RLeq(simulator.maker_proportion, One)

\* on books that are not crossed the proportion stays in the range
MakerProportionRangeUncrossed ==
    (has_data(bids, asks) /\ StoredPricesParse /\ feed.pc = "fees"
       /\ RLeq(PriceAt(bids, 1), PriceAt(asks, 1))) => C20_MakerProportionRange

\* C1: a reader of the book and the results sees one complete published
\* state, the one before or the one after an update, never results or
\* sides from different updates: what a finished display pass has read is
\* a state some update left.
C1_NoTornRead == gui.pc = "displayed" => gui.seen \in committed

\* the net-cost equation over the stored results for an order quantity q
NetCostEquation(q) ==
    simulator.net_cost =
        RAdd(RAdd(RMul(RDiv(simulator.slippage, Rat(100)), q), simulator.fees),
             RMul(RDiv(simulator.market_impact, Rat(100)), q))

\* the feed thread has just stored the net cost of a pipeline run
RunStored == feed.pc = "latency" /\ feed.quantities # {}

\* C6: the results a pipeline run stored satisfy
\* net_cost = slippage/100 * quantity + fee + market_impact/100 * quantity
\* exactly, for the order quantity the run computed them with.  It is asked
\* of some quantity the run read, the weakest reading.
C6_NetCostIdentity ==
    RunStored => \E q \in feed.quantities : NetCostEquation(q)

\* set_parameters has returned
ParametersSet == gui.pc = "idle" /\ gui.settings > 0

\* the FeeModel's active rates are those of the table entry of tier t
RatesOfTier(t) ==
    /\ fee_model.maker_rate = FeeRate(FeeTiers[t].maker)
    /\ fee_model.taker_rate = FeeRate(FeeTiers[t].taker)

\* C19: after any sequence of set_parameters calls, the FeeModel's active
\* maker and taker rates equal the fee-tier table entry for the
\* controller's currently configured exchange and fee tier.
C19_RatesMatchTier ==
    ParametersSet =>
        /\ simulator.exchange \in EXCHANGES
        /\ simulator.fee_tier \in DOMAIN FeeTiers
        /\ RatesOfTier(simulator.fee_tier)

\* the same whenever the configured exchange and tier are in the table
RatesMatchKnownTier ==
    (ParametersSet /\ simulator.exchange \in EXCHANGES
                   /\ simulator.fee_tier \in DOMAIN FeeTiers) =>
        RatesOfTier(simulator.fee_tier)

\* the controller is configured with a tier the table does not hold while
\* the FeeModel charges the rates of VIP 5
C19_StaleRates ==
    /\ ParametersSet
    /\ simulator.fee_tier = "VIP 9"
    /\ RatesOfTier("VIP 5")

\* the parameter sets set_parameters may have installed
ParameterSets == {DefaultParameters} \cup ParameterChoices

\* C18: set_parameters swaps the parameter set atomically with respect to
\* the feed thread: a single pipeline run uses either all old or all new
\* values of quantity, volatility and order_type in the feature snapshot,
\* the fee calculation, the impact calculation and the net-cost sum, never
\* a mixture.
C18_OneParameterSetPerRun ==
    \E P \in ParameterSets :
        /\ feed.quantities \subseteq {P.quantity}
        /\ feed.volatilities \subseteq {P.volatility}
        /\ feed.order_types \subseteq {P.order_type}

\* a run that took its order type before set_parameters and its volatility
\* after
C18_MixedSnapshot ==
    /\ feed.order_types = {DefaultParameters.order_type}
    /\ feed.volatilities \cap {P.volatility : P \in ParameterChoices} # {}

\* a run that read two quantities
C6_QuantityChangedInRun == RunStored /\ Cardinality(feed.quantities) = 2

=============================================================================
